---- MODULE Spec2Model ----
(***************************************************************************)
(* Request handling of go-wfs / jivan: the handler collectionData          *)
(* (server/handlers.go) with contentType, ctLink and jsonError, and        *)
(* wfs3.FeatureData / wfs3.FeatureCollectionData (wfs3/features.go).       *)
(*                                                                         *)
(* Strings the code parses, splits or formats are sequences of one-        *)
(* character strings (<<"1", ",", "J">>), so that strings.Split,           *)
(* strconv.ParseUint, strconv.ParseFloat and fmt.Sprintf("%v", uint) are   *)
(* computed, not assumed.  Go's uint / uint64 values are eight base-256    *)
(* limbs, least significant first, with arithmetic modulo 2^64.            *)
(***************************************************************************)
EXTENDS Integers, Sequences, FiniteSets, TLC

VARIABLES config, req, w, calls, peer, check, walk

vars == <<config, req, w, calls, peer, check, walk>>

-----------------------------------------------------------------------------
(* Machine integers: Go uint on a 64-bit platform.                         *)

U64Limbs == 8

LimbBase == 256

U64Zero == [i \in 1..U64Limbs |-> 0]

\* a small natural number (< 2^31) as a uint64
RECURSIVE NatLimbs(_, _)
NatLimbs(n, k) ==
    IF k = 0 THEN << >> ELSE <<n % LimbBase>> \o NatLimbs(n \div LimbBase, k - 1)

U64(n) == NatLimbs(n, U64Limbs)

Limb(a, i) == IF i \in 1..Len(a) THEN a[i] ELSE 0

\* the value of a uint64 known to be small (its upper limbs are zero)
IsSmall(a) == \A i \in 4..U64Limbs : a[i] = 0

ToNat(a) == a[1] + LimbBase * a[2] + LimbBase * LimbBase * a[3]

\* a < b, a <= b on uint64
RECURSIVE LtFrom(_, _, _)
LtFrom(a, b, i) ==
    IF i = 0 THEN FALSE
    ELSE IF a[i] # b[i] THEN a[i] < b[i]
    ELSE LtFrom(a, b, i - 1)

LtU(a, b) == LtFrom(a, b, U64Limbs)

LeU(a, b) == a = b \/ LtU(a, b)

\* carry propagation over a sequence of column sums, least significant first
RECURSIVE Carry(_, _, _)
Carry(cols, i, c) ==
    IF i > Len(cols) THEN << >>
    ELSE <<(cols[i] + c) % LimbBase>> \o Carry(cols, i + 1, (cols[i] + c) \div LimbBase)

RECURSIVE ColSum(_, _, _, _)
ColSum(a, b, k, i) ==
    IF i > k THEN 0 ELSE Limb(a, i) * Limb(b, k + 1 - i) + ColSum(a, b, k, i + 1)

\* Go's a * b and a + b on uint: the result modulo 2^64 (the columns above the
\* eighth limb, and the carry out of it, are dropped)
MulU(a, b) == Carry([k \in 1..U64Limbs |-> ColSum(a, b, k, 1)], 1, 0)

AddU(a, b) == Carry([k \in 1..U64Limbs |-> a[k] + b[k]], 1, 0)

\* a * m + d for small m and d, with one more limb: the carry out of the uint64
MulAddWide(a, m, d) ==
    Carry([k \in 1..(U64Limbs + 1) |-> Limb(a, k) * m + (IF k = 1 THEN d ELSE 0)], 1, 0)

Low(x) == SubSeq(x, 1, U64Limbs)

Overflows(x) == x[U64Limbs + 1] # 0

Complement(a) == [i \in 1..U64Limbs |-> LimbBase - 1 - a[i]]

SubU(a, b) == AddU(AddU(a, Complement(b)), U64(1))

\* quotient and remainder of a uint64 by a small divisor, most significant limb first
RECURSIVE DivFrom(_, _, _, _)
DivFrom(a, d, i, rem) ==
    IF i = 0 THEN [q |-> << >>, r |-> rem]
    ELSE LET cur == rem * LimbBase + a[i]
             rest == DivFrom(a, d, i - 1, cur % d)
         IN  [q |-> rest.q \o <<cur \div d>>, r |-> rest.r]

DivSmall(a, d) == DivFrom(a, d, U64Limbs, 0)

-----------------------------------------------------------------------------
(* Strings as sequences of characters.                                     *)

Digits == <<"0", "1", "2", "3", "4", "5", "6", "7", "8", "9">>

IsDigit(c) == \E i \in 1..Len(Digits) : Digits[i] = c

DigitVal(c) == (CHOOSE i \in 1..Len(Digits) : Digits[i] = c) - 1

\* strings.Split(s, sep) for a one-character separator: never empty, "" gives [""]
RECURSIVE SplitFrom(_, _, _, _)
SplitFrom(s, sep, i, cur) ==
    IF i > Len(s) THEN <<cur>>
    ELSE IF s[i] = sep THEN <<cur>> \o SplitFrom(s, sep, i + 1, << >>)
    ELSE SplitFrom(s, sep, i + 1, Append(cur, s[i]))

Split(s, sep) == SplitFrom(s, sep, 1, << >>)

\* strconv.ParseUint(s, 10, 64): digits only, at least one, value below 2^64
RECURSIVE ParseDigits(_, _, _)
ParseDigits(s, i, acc) ==
    IF i > Len(s) THEN [ok |-> TRUE, val |-> acc, err |-> "none"]
    ELSE LET a == MulAddWide(acc, 10, DigitVal(s[i]))
         IN  IF Overflows(a)
             THEN [ok |-> FALSE, val |-> U64Zero, err |-> "value out of range"]
             ELSE ParseDigits(s, i + 1, Low(a))

ParseUint(s) ==
    IF Len(s) = 0 \/ \E i \in 1..Len(s) : ~IsDigit(s[i])
    THEN [ok |-> FALSE, val |-> U64Zero, err |-> "invalid syntax"]
    ELSE ParseDigits(s, 1, U64Zero)

\* fmt.Sprintf("%v", u) for an unsigned integer: its decimal digits
RECURSIVE FormatFrom(_)
FormatFrom(a) ==
    IF a = U64Zero THEN << >>
    ELSE LET d == DivSmall(a, 10) IN Append(FormatFrom(d.q), Digits[d.r + 1])

FormatUint(a) == IF a = U64Zero THEN <<"0">> ELSE FormatFrom(a)

\* strconv.Atoi(s) followed by uint64(cid): an optional sign, digits, the range of
\* a 64-bit int; on an error cid is 0.  val is the two's complement uint64.
Atoi(s) ==
    LET signed == Len(s) > 0 /\ s[1] \in {"+", "-"}
        neg    == Len(s) > 0 /\ s[1] = "-"
        p      == ParseUint(IF signed THEN Tail(s) ELSE s)
        min    == [i \in 1..U64Limbs |-> IF i = U64Limbs THEN LimbBase \div 2 ELSE 0]
        fits   == p.val[U64Limbs] < LimbBase \div 2 \/ (neg /\ p.val = min)
    IN  IF p.ok /\ fits
        THEN [ok |-> TRUE, val |-> IF neg THEN SubU(U64Zero, p.val) ELSE p.val]
        ELSE [ok |-> FALSE, val |-> U64Zero]

\* strconv.ParseFloat(s, 64) on strings over digits, ".", "+", "-" and letters that
\* start no float syntax: an optional sign, digits with at most one ".", at least
\* one digit.  The value is kept as <<sign, integer digits, fraction digits>>
\* without leading or trailing zeros.
RECURSIVE StripLeft(_)
StripLeft(s) == IF Len(s) > 0 /\ s[1] = "0" THEN StripLeft(Tail(s)) ELSE s

RECURSIVE StripRight(_)
StripRight(s) ==
    IF Len(s) > 0 /\ s[Len(s)] = "0" THEN StripRight(SubSeq(s, 1, Len(s) - 1)) ELSE s

ParseFloat(s) ==
    LET signed == Len(s) > 0 /\ s[1] \in {"+", "-"}
        body   == IF signed THEN Tail(s) ELSE s
        parts  == Split(body, ".")
        digits == {i \in 1..Len(body) : IsDigit(body[i])}
        ok     == /\ Len(parts) <= 2
                  /\ digits # {}
                  /\ \A i \in 1..Len(body) : IsDigit(body[i]) \/ body[i] = "."
        int    == StripLeft(parts[1])
        frac   == IF Len(parts) = 2 THEN StripRight(parts[2]) ELSE << >>
        zero   == int = << >> /\ frac = << >>
    IN  IF ok
        THEN [ok |-> TRUE,
              val |-> <<IF signed /\ s[1] = "-" /\ ~zero THEN "-" ELSE "+", int, frac>>]
        ELSE [ok |-> FALSE, val |-> <<"+", << >>, << >>>>]

-----------------------------------------------------------------------------
(* Configuration, content types, the response writer.                      *)

JSONContentType == "application/json"

HTMLContentType == "text/html"

\* config.SupportedContentTypes, in its declared order
SupportedContentTypes == <<JSONContentType, HTMLContentType>>

DEFAULT_RESULT_LIMIT == 10

HTTPStatusOk == 200

HTTPStatusNotModified == 304

HTTPStatusServerError == 500

HTTPStatusClientError == 400

HTTPMethodGET == "GET"

HTTPMethodHEAD == "HEAD"

\* the empty string, an absent ETag header, nil bytes, a nil *geom.Extent
Empty == << >>

\* http.ResponseWriter: the header map the handler edits, the status line once
\* written with the headers as they were at that moment, and the writes to the body
NewWriter ==
    [hdr         |-> [ETag |-> Empty, ContentType |-> ""],
     wroteHeader |-> FALSE,
     status      |-> 0,
     sent        |-> [ETag |-> Empty, ContentType |-> ""],
     body        |-> << >>]

SetETag(rw, v) == [rw EXCEPT !.hdr.ETag = v]

SetContentType(rw, v) == [rw EXCEPT !.hdr.ContentType = v]

\* only the first WriteHeader of a response takes effect
WriteHeader(rw, status) ==
    IF rw.wroteHeader THEN rw
    ELSE [rw EXCEPT !.wroteHeader = TRUE, !.status = status, !.sent = rw.hdr]

\* a Write before any WriteHeader sends status 200 first
Write(rw, bytes) ==
    LET rw1 == WriteHeader(rw, HTTPStatusOk)
    IN  IF bytes = Empty THEN rw1 ELSE [rw1 EXCEPT !.body = Append(@, bytes)]

supportedContentType(ct) ==
    \E i \in 1..Len(SupportedContentTypes) : SupportedContentTypes[i] = ct

\* r.URL.Query()[key]: the values of a key, none when the key is absent
QueryValues(r, key) == IF key \in DOMAIN r.query THEN r.query[key] ELSE << >>

\* a resolution that falls back on the header when f is not supported
contentTypeHeaderFallback(r) ==
    LET qFormat == QueryValues(r, "f")
    IN  IF Len(qFormat) > 0 /\ supportedContentType(qFormat[1]) THEN qFormat[1]
        ELSE IF supportedContentType(r.hCT) THEN r.hCT
        ELSE JSONContentType

contentType(r) ==
    LET defaultContentType == JSONContentType
        ctType   == r.hCT
        useType0 == IF supportedContentType(ctType) THEN ctType ELSE ""
        qFormat  == QueryValues(r, "f")
        useType1 == IF Len(qFormat) > 0 /\ qFormat[1] # useType0
                    THEN qFormat[1] ELSE useType0
    IN  IF ~supportedContentType(useType1) THEN defaultContentType ELSE useType1

\* the bytes json.Marshal gives for the {code, description} error object
ErrorBody(code, msg) == [kind |-> "error", code |-> code, description |-> msg]

\* an error answered as "not found", whatever status the handler asked for
jsonErrorNotFound(rw, code, msg, status) ==
    Write(WriteHeader(rw, 404), ErrorBody(code, msg))

jsonError(rw, code, msg, status) ==
    Write(WriteHeader(rw, status), ErrorBody(code, msg))

\* A URL the handler builds: the serve address, the path segments and the query
\* as url.Values.Encode() leaves it (one value per key, the order fixed by the keys)
URL(base, path, query) == [base |-> base, path |-> path, query |-> query]

NoQuery == [k \in {} |-> Empty]

\* a page query with the two numbers exchanged
PageQuerySwapped(pageNum, limit) ==
    [k \in {"page", "limit"} |->
        IF k = "page" THEN FormatUint(limit) ELSE FormatUint(pageNum)]

\* the query "page=%v&limit=%v" after url.Parse
PageQuery(pageNum, limit) ==
    [k \in {"page", "limit"} |->
        IF k = "page" THEN FormatUint(pageNum) ELSE FormatUint(limit)]

ctLink(cfg, baselink, ct) ==
    IF ct = cfg.DefaultMimeType THEN baselink
    ELSE [baselink EXCEPT !.query =
            [k \in DOMAIN baselink.query \cup {"f"} |->
                IF k = "f" THEN ct ELSE baselink.query[k]]]

Link(rel, href, type) == [Rel |-> rel, Href |-> href, Type |-> type]

\* serveSchemeHostPortBase(r): the address result URLs are built with
serveSchemeHostPortBase(r) == r.host

\* hash/fnv New64 over a byte string, printed in hex: an injective tag of its input
Fnv64Hex(bytes) == <<"fnv64", bytes>>

-----------------------------------------------------------------------------
(* The data provider (package data_provider) as the handlers use it.  Each *)
(* call is logged in calls with its arguments and what it returned.        *)

\* a time string the provider can parse: date and time digits, nothing else
ValidTimeString(t) ==
    Len(t) > 0 /\ \A i \in 1..Len(t) : IsDigit(t[i]) \/ t[i] = "-"

TimeKeys == {"timestamp", "start_time", "stop_time"}

NoError == [type |-> "none", msg |-> Empty]

\* p.CollectionFeatures(cName, properties, bbox): a *BadTimeString for a time
\* property it cannot parse, another error, or the features matching the filters
CollectionFeatures(r, cName, properties, bbox) ==
    LET bad == {k \in DOMAIN properties \cap TimeKeys : ~ValidTimeString(properties[k])}
        k0  == IF "timestamp" \in bad THEN "timestamp"
               ELSE IF "start_time" \in bad THEN "start_time" ELSE "stop_time"
    IN  IF bad # {}
        THEN [err |-> [type |-> "BadTimeString",
                       msg  |-> <<"unable to parse time string: '%v'", properties[k0]>>],
              features |-> << >>]
        ELSE IF r.prov.err
        THEN [err |-> [type |-> "error", msg |-> <<"provider error">>], features |-> << >>]
        ELSE [err |-> NoError, features |-> [i \in 1..r.prov.n |-> [ID |-> U64(i)]]]

\* p.GetFeatures([{cname, fid}]): an error, or the features stored under that key
GetFeatures(r, cname, fid) ==
    IF r.prov.err
    THEN [err |-> [type |-> "error", msg |-> <<"provider error">>], features |-> << >>]
    ELSE [err |-> NoError, features |-> [i \in 1..r.prov.n |-> [ID |-> fid]]]

-----------------------------------------------------------------------------
(* wfs3.FeatureData and wfs3.FeatureCollectionData (checkOnly = false).    *)

\* a feature lookup that takes the first of the features the provider returns
FeatureDataFirst(r, cname, fid) ==
    LET got == GetFeatures(r, cname, fid)
        pfs == got.features
        call == [op |-> "GetFeatures", name |-> cname, fid |-> fid,
                 failed |-> got.err.type # "none", returned |-> got.features]
    IN  IF got.err.type # "none"
        THEN [content |-> Empty, contentId |-> Empty, err |-> got.err, calls |-> <<call>>]
        ELSE IF Len(pfs) = 0
        THEN [content |-> Empty, contentId |-> Empty, calls |-> <<call>>,
              err |-> [type |-> "error",
                       msg |-> <<"Invalid collection/fid: %v/%v", cname, FormatUint(fid)>>]]
        ELSE [content |-> [kind |-> "Feature", ID |-> pfs[1].ID, Links |-> << >>],
              contentId |-> Fnv64Hex(cname \o FormatUint(fid)), err |-> NoError,
              calls |-> <<call>>]

FeatureData(r, cname, fid) ==
    LET contentId == Fnv64Hex(cname \o FormatUint(fid))
        got == GetFeatures(r, cname, fid)
        pfs == got.features
        call == [op |-> "GetFeatures", name |-> cname, fid |-> fid,
                 failed |-> got.err.type # "none", returned |-> got.features]
    IN  IF got.err.type # "none"
        THEN [content |-> Empty, contentId |-> Empty, err |-> got.err, calls |-> <<call>>]
        ELSE IF Len(pfs) # 1
        THEN [content |-> Empty, contentId |-> Empty, calls |-> <<call>>,
              err |-> [type |-> "error",
                       msg |-> <<"Invalid collection/fid: %v/%v", cname, FormatUint(fid)>>]]
        ELSE [content |-> [kind |-> "Feature", ID |-> pfs[1].ID, Links |-> << >>],
              contentId |-> contentId, err |-> NoError, calls |-> <<call>>]

\* as FeatureCollectionData, with the first index of the page in the fingerprint
FeatureCollectionDataPaged(r, cName, bbox, startIdx, stopIdx0, properties) ==
    LET contentId == Fnv64Hex(cName \o FormatUint(startIdx))
        got == CollectionFeatures(r, cName, properties, bbox)
        cfs == got.features
        call == [op |-> "CollectionFeatures", name |-> cName,
                 properties |-> properties, bbox |-> bbox,
                 failed |-> got.err.type # "none", returned |-> got.features]
        featureTotal == U64(Len(cfs))
        originalStopIdx == stopIdx0
        stopIdx == IF LtU(featureTotal, stopIdx0) THEN featureTotal ELSE stopIdx0
    IN  IF got.err.type # "none"
        THEN [content |-> Empty, featureTotal |-> U64Zero, contentId |-> Empty,
              err |-> got.err, calls |-> <<call>>]
        ELSE IF LeU(featureTotal, startIdx) \/ LtU(stopIdx, startIdx)
        THEN [content |-> Empty, featureTotal |-> featureTotal, contentId |-> Empty,
              calls |-> <<call>>,
              err |-> [type |-> "error",
                       msg |-> <<"Invalid start/stop indices [%v, %v] for collection of length %v",
                                 FormatUint(startIdx), FormatUint(originalStopIdx),
                                 FormatUint(featureTotal)>>]]
        ELSE [content |-> [kind |-> "FeatureCollection",
                           Features |-> SubSeq(cfs, ToNat(startIdx) + 1, ToNat(stopIdx)),
                           Links |-> << >>,
                           NumberMatched |-> U64Zero, NumberReturned |-> U64Zero],
              featureTotal |-> featureTotal, contentId |-> contentId,
              err |-> NoError, calls |-> <<call>>]

FeatureCollectionData(r, cName, bbox, startIdx, stopIdx0, properties) ==
    LET contentId == Fnv64Hex(cName)
        got == CollectionFeatures(r, cName, properties, bbox)
        cfs == got.features
        call == [op |-> "CollectionFeatures", name |-> cName,
                 properties |-> properties, bbox |-> bbox,
                 failed |-> got.err.type # "none", returned |-> got.features]
        featureTotal == U64(Len(cfs))
        originalStopIdx == stopIdx0
        stopIdx == IF LtU(featureTotal, stopIdx0) THEN featureTotal ELSE stopIdx0
    IN  IF got.err.type # "none"
        THEN [content |-> Empty, featureTotal |-> U64Zero, contentId |-> Empty,
              err |-> got.err, calls |-> <<call>>]
        ELSE IF LeU(featureTotal, startIdx) \/ LtU(stopIdx, startIdx)
        THEN [content |-> Empty, featureTotal |-> featureTotal, contentId |-> Empty,
              calls |-> <<call>>,
              err |-> [type |-> "error",
                       msg |-> <<"Invalid start/stop indices [%v, %v] for collection of length %v",
                                 FormatUint(startIdx), FormatUint(originalStopIdx),
                                 FormatUint(featureTotal)>>]]
        ELSE [content |-> [kind |-> "FeatureCollection",
                           Features |-> SubSeq(cfs, ToNat(startIdx) + 1, ToNat(stopIdx)),
                           Links |-> << >>,
                           NumberMatched |-> U64Zero, NumberReturned |-> U64Zero],
              featureTotal |-> featureTotal, contentId |-> contentId,
              err |-> NoError, calls |-> <<call>>]

-----------------------------------------------------------------------------
(* collectionData: the query parameters.                                   *)

reservedQParams == {"f", "page", "limit", "time", "bbox"}

\* limit: 10 unless the query has exactly one limit value; that value clamped
limitParam(cfg, r) ==
    LET qPageSize == QueryValues(r, "limit")
        ps == ParseUint(qPageSize[1])
    IN  IF Len(qPageSize) # 1
        THEN [ok |-> TRUE, val |-> U64(DEFAULT_RESULT_LIMIT), msg |-> Empty]
        ELSE IF ~ps.ok
        THEN [ok |-> FALSE, val |-> U64Zero,
              msg |-> <<"strconv.ParseUint: parsing %q: %v", qPageSize[1], ps.err>>]
        ELSE IF LtU(U64(cfg.MaxLimit), ps.val)
        THEN [ok |-> TRUE, val |-> U64(cfg.MaxLimit), msg |-> Empty]
        ELSE [ok |-> TRUE, val |-> ps.val, msg |-> Empty]

\* page: 0 unless the query has exactly one page value
pageParam(r) ==
    LET qPageNum == QueryValues(r, "page")
        pn == ParseUint(qPageNum[1])
    IN  IF Len(qPageNum) # 1
        THEN [ok |-> TRUE, val |-> U64Zero, msg |-> Empty]
        ELSE IF ~pn.ok
        THEN [ok |-> FALSE, val |-> U64Zero,
              msg |-> <<"strconv.ParseUint: parsing %q: %v", qPageNum[1], pn.err>>]
        ELSE [ok |-> TRUE, val |-> pn.val, msg |-> Empty]

\* a bbox check that counts the items from 0
bboxParamZeroBased(r) ==
    LET qBBox == QueryValues(r, "bbox")
        bbox_items == Split(qBBox[1], ",")
        badItems == {i \in 1..Len(bbox_items) : ~ParseFloat(bbox_items[i]).ok}
        i0 == CHOOSE i \in badItems : \A j \in badItems : i <= j
    IN  IF Len(qBBox) = 0
        THEN [ok |-> TRUE, val |-> Empty, msg |-> Empty]
        ELSE IF Len(qBBox) > 1
        THEN [ok |-> FALSE, val |-> Empty,
              msg |-> <<"'bbox' parameter provided more than once">>]
        ELSE IF Len(bbox_items) # 4
        THEN [ok |-> FALSE, val |-> Empty,
              msg |-> <<"'bbox' parameter has %v items, expecting 4: '%v'",
                        Len(bbox_items), qBBox[1]>>]
        ELSE IF badItems # {}
        THEN [ok |-> FALSE, val |-> Empty,
              msg |-> <<"'bbox' parameter has invalid format for item %v/4: '%v' / '%v'",
                        i0 - 1, bbox_items[i0], qBBox[1]>>]
        ELSE [ok |-> TRUE, val |-> [i \in 1..4 |-> ParseFloat(bbox_items[i]).val],
              msg |-> Empty]

\* bbox: nil when absent, else four floats; val is Empty for a nil extent
bboxParam(r) ==
    LET qBBox == QueryValues(r, "bbox")
        bbox_items == Split(qBBox[1], ",")
        badItems == {i \in 1..Len(bbox_items) : ~ParseFloat(bbox_items[i]).ok}
        i0 == CHOOSE i \in badItems : \A j \in badItems : i <= j
    IN  IF Len(qBBox) = 0
        THEN [ok |-> TRUE, val |-> Empty, msg |-> Empty]
        ELSE IF Len(qBBox) > 1
        THEN [ok |-> FALSE, val |-> Empty,
              msg |-> <<"'bbox' parameter provided more than once">>]
        ELSE IF Len(bbox_items) # 4
        THEN [ok |-> FALSE, val |-> Empty,
              msg |-> <<"'bbox' parameter has %v items, expecting 4: '%v'",
                        Len(bbox_items), qBBox[1]>>]
        ELSE IF badItems # {}
        THEN [ok |-> FALSE, val |-> Empty,
              msg |-> <<"'bbox' parameter has invalid format for item %v/4: '%v' / '%v'",
                        i0, bbox_items[i0], qBBox[1]>>]
        ELSE [ok |-> TRUE, val |-> [i \in 1..4 |-> ParseFloat(bbox_items[i]).val],
              msg |-> Empty]

NoProps == [k \in {} |-> Empty]

\* a time check that takes the first two of any number of segments
timeParamFirstTwo(r) ==
    LET qTime == QueryValues(r, "time")
        ts == Split(qTime[1], "/")
    IN  IF Len(qTime) = 0
        THEN [ok |-> TRUE, val |-> NoProps, msg |-> Empty]
        ELSE IF Len(qTime) > 1
        THEN [ok |-> FALSE, val |-> NoProps,
              msg |-> <<"'time' parameter provided more than once'">>]
        ELSE IF Len(ts) = 1
        THEN [ok |-> TRUE, val |-> [k \in {"timestamp"} |-> ts[1]], msg |-> Empty]
        ELSE [ok |-> TRUE, msg |-> Empty,
              val |-> [k \in {"start_time", "stop_time"} |->
                          IF k = "start_time" THEN ts[1] ELSE ts[2]]]

\* time: nil when absent, else timestamp, or start_time and stop_time
timeParam(r) ==
    LET qTime == QueryValues(r, "time")
        ts == Split(qTime[1], "/")
    IN  IF Len(qTime) = 0
        THEN [ok |-> TRUE, val |-> NoProps, msg |-> Empty]
        ELSE IF Len(qTime) > 1
        THEN [ok |-> FALSE, val |-> NoProps,
              msg |-> <<"'time' parameter provided more than once'">>]
        ELSE IF Len(ts) = 1
        THEN [ok |-> TRUE, val |-> [k \in {"timestamp"} |-> ts[1]], msg |-> Empty]
        ELSE IF Len(ts) = 2
        THEN [ok |-> TRUE, msg |-> Empty,
              val |-> [k \in {"start_time", "stop_time"} |->
                          IF k = "start_time" THEN ts[1] ELSE ts[2]]]
        ELSE [ok |-> FALSE, val |-> NoProps,
              msg |-> <<"'time' parameter contains more than two time values ('/' separator)">>]

\* the additional property filters, then the time-specific properties over them
propertyFilters(r, timeprops) ==
    LET own == DOMAIN r.query \ reservedQParams
    IN  [k \in own \cup DOMAIN timeprops |->
            IF k \in DOMAIN timeprops THEN timeprops[k] ELSE r.query[k][1]]

-----------------------------------------------------------------------------
(* collectionData: links, encoding, validation, the handler.               *)

\* the alternate content types of ct
altContentTypes(ct) ==
    IF ct = JSONContentType THEN <<HTMLContentType>>
    ELSE IF ct = HTMLContentType THEN <<JSONContentType>>
    ELSE << >>

\* links of a single feature none of which is a self link
featureLinksAllAlternate(cfg, r, ct, cName, fid) ==
    LET shref == URL(serveSchemeHostPortBase(r),
                     <<"collections", cName, "items", FormatUint(fid)>>, NoQuery)
        chref == URL(serveSchemeHostPortBase(r), <<"collections", cName>>, NoQuery)
    IN  [i \in 1..Len(SupportedContentTypes) |->
            LET sct == SupportedContentTypes[i]
            IN  Link("alternate", ctLink(cfg, shref, sct), sct)]
        \o <<Link("collection", ctLink(cfg, chref, ct), ct)>>

\* the links of a single feature: one per supported type, then the collection
featureLinks(cfg, r, ct, cName, fid) ==
    LET shref == URL(serveSchemeHostPortBase(r),
                     <<"collections", cName, "items", FormatUint(fid)>>, NoQuery)
        chref == URL(serveSchemeHostPortBase(r), <<"collections", cName>>, NoQuery)
    IN  [i \in 1..Len(SupportedContentTypes) |->
            LET sct == SupportedContentTypes[i]
            IN  Link(IF sct = ct THEN "self" ELSE "alternate", ctLink(cfg, shref, sct), sct)]
        \o <<Link("collection", ctLink(cfg, chref, ct), ct)>>

\* whether the collection page has a prev, a next link
hasPrev(pageNum) == LtU(U64Zero, pageNum)

hasNext(featureTotal, limit, pageNum) ==
    LtU(MulU(limit, AddU(pageNum, U64(1))), featureTotal)

\* the links of a feature collection page: self, alternates, prev, next
collectionLinks(cfg, r, ct, cName, pageNum, limit, featureTotal) ==
    LET items == <<"collections", cName, "items">>
        self == URL(serveSchemeHostPortBase(r), items, PageQuery(pageNum, limit))
        prev == URL(serveSchemeHostPortBase(r), items,
                    PageQuery(SubU(pageNum, U64(1)), limit))
        next == URL(serveSchemeHostPortBase(r), items,
                    PageQuery(AddU(pageNum, U64(1)), limit))
        altcts == altContentTypes(ct)
    IN  <<Link("self", ctLink(cfg, self, ct), ct)>>
        \o [i \in 1..Len(altcts) |-> Link("alternate", ctLink(cfg, self, altcts[i]), altcts[i])]
        \o (IF hasPrev(pageNum) THEN <<Link("prev", prev, ct)>> ELSE << >>)
        \o (IF hasNext(featureTotal, limit, pageNum) THEN <<Link("next", next, ct)>> ELSE << >>)

\* json.Marshal(d) / d.MarshalHTML(config): the bytes, nil when marshalling fails
Marshal(r, ct, d) ==
    IF r.marshalErr THEN Empty
    ELSE [kind |-> IF ct = JSONContentType THEN "json" ELSE "html", data |-> d]

\* wfs3.ValidateJSONResponseAgainstJSONSchema(encodedContent, jsonSchema)
SchemaValid(r, encodedContent) == encodedContent # Empty /\ r.schemaOK

\* from the marshalled envelope to the end of the handler
respond(r, rw0, ct, d) ==
    LET encoded == Marshal(r, ct, d)
        rw1 == IF encoded = Empty
               THEN jsonError(rw0, "oApplicableCode",
                              <<"Problem marshalling feature data: %v">>, HTTPStatusServerError)
               ELSE rw0
        rw2 == SetContentType(rw1, ct)
        encodedContent == IF r.override THEN [kind |-> "override"] ELSE encoded
    IN  IF ct = JSONContentType /\ ~SchemaValid(r, encodedContent)
        THEN jsonError(rw2, "NoApplicableCode", <<"response doesn't match schema">>,
                       HTTPStatusServerError)
        ELSE Write(WriteHeader(rw2, HTTPStatusOk), encodedContent)

\* a handler that answers HEAD from the fingerprint of the request, whatever
\* the fetch gave
afterFetchHeadFirst(cfg, r, rw0, ct, cName, fid, pageNum, limit, got) ==
    LET contentId == IF r.fid # Empty THEN Fnv64Hex(cName \o FormatUint(fid))
                     ELSE Fnv64Hex(cName)
        rw1 == SetETag(rw0, contentId)
        d == got.content
        feature == [d EXCEPT !.Links = d.Links \o featureLinks(cfg, r, ct, cName, fid)]
        page == [d EXCEPT
                    !.Links = d.Links \o collectionLinks(cfg, r, ct, cName, pageNum, limit,
                                                         got.featureTotal),
                    !.NumberMatched = got.featureTotal,
                    !.NumberReturned = U64(Len(d.Features))]
    IN  IF r.method = HTTPMethodHEAD
        THEN IF r.hETag = contentId
             THEN WriteHeader(rw1, HTTPStatusNotModified)
             ELSE WriteHeader(rw1, HTTPStatusOk)
        ELSE IF got.err.type # "none"
        THEN IF got.err.type = "BadTimeString"
             THEN jsonError(rw0, "InvalidParameterValue", got.err.msg, HTTPStatusClientError)
             ELSE jsonError(rw0, "InvalidParameterValue",
                            <<"Problem collecting feature data: %v", got.err.msg>>,
                            HTTPStatusServerError)
        ELSE IF d.kind = "Feature"
        THEN respond(r, rw1, ct, feature)
        ELSE respond(r, rw1, ct, page)

\* from the fetched data to the end of the handler
afterFetch(cfg, r, rw0, ct, cName, fid, pageNum, limit, got) ==
    LET rw1 == SetETag(rw0, got.contentId)
        d == got.content
        feature == [d EXCEPT !.Links = d.Links \o featureLinks(cfg, r, ct, cName, fid)]
        page == [d EXCEPT
                    !.Links = d.Links \o collectionLinks(cfg, r, ct, cName, pageNum, limit,
                                                         got.featureTotal),
                    !.NumberMatched = got.featureTotal,
                    !.NumberReturned = U64(Len(d.Features))]
    IN  IF got.err.type # "none"
        THEN IF got.err.type = "BadTimeString"
             THEN jsonError(rw0, "InvalidParameterValue", got.err.msg, HTTPStatusClientError)
             ELSE jsonError(rw0, "InvalidParameterValue",
                            <<"Problem collecting feature data: %v", got.err.msg>>,
                            HTTPStatusServerError)
        ELSE IF r.method = HTTPMethodHEAD
        THEN IF r.hETag = got.contentId
             THEN WriteHeader(rw1, HTTPStatusNotModified)
             ELSE WriteHeader(rw1, HTTPStatusOk)
        ELSE IF d.kind = "Feature"
        THEN respond(r, rw1, ct, feature)
        ELSE respond(r, rw1, ct, page)

\* The handler.  An unparsable feature_id writes its error and goes on (there is
\* no return after that jsonError); every other parameter error returns.
collectionData(cfg, r) ==
    LET ct == contentType(r)
        cName == r.name
        fidStr == r.fid
        cid == Atoi(fidStr)
        rw0 == IF fidStr # Empty /\ ~cid.ok
               THEN jsonError(NewWriter, "InvalidParameterValue",
                              <<"Invalid feature_id: ", fidStr>>, HTTPStatusClientError)
               ELSE NewWriter
        fid == IF fidStr # Empty THEN cid.val ELSE U64Zero
        limit == limitParam(cfg, r)
        pageNum == pageParam(r)
        bbox == bboxParam(r)
        timeprops == timeParam(r)
        properties == propertyFilters(r, timeprops.val)
        startIdx == MulU(limit.val, pageNum.val)
        stopIdx == AddU(startIdx, limit.val)
        got == IF fidStr # Empty
               THEN FeatureData(r, cName, fid) @@ [featureTotal |-> U64Zero]
               ELSE FeatureCollectionData(r, cName, bbox.val, startIdx, stopIdx, properties)
    IN  IF ~limit.ok
        THEN [w |-> jsonError(rw0, "NoApplicableCode", limit.msg, HTTPStatusClientError),
              calls |-> << >>]
        ELSE IF ~pageNum.ok
        THEN [w |-> jsonError(rw0, "NoApplicableCode", pageNum.msg, HTTPStatusClientError),
              calls |-> << >>]
        ELSE IF ~bbox.ok
        THEN [w |-> jsonError(rw0, "InvalidParameterValue", bbox.msg, HTTPStatusClientError),
              calls |-> << >>]
        ELSE IF ~timeprops.ok
        THEN [w |-> jsonError(rw0, "InvalidParameterValue", timeprops.msg,
                              HTTPStatusClientError),
              calls |-> << >>]
        ELSE [w |-> afterFetch(cfg, r, rw0, ct, cName, fid, pageNum.val, limit.val, got),
              calls |-> got.calls]

-----------------------------------------------------------------------------
(* The other resources: wfs3.Root, Conformance, OpenAPI3SchemaEncoded,     *)
(* CollectionsMetaData, CollectionMetaData, and their handlers.            *)

\* wfs3.Root(false): the root content without links, and its fingerprint
Root ==
    [content |-> [kind |-> "RootContent", Links |-> << >>],
     contentId |-> Fnv64Hex(<<"RootContent">>)]

\* wfs3.Conformance(): the fingerprint is the hash of the marshalled classes
Conformance ==
    [content |-> [kind |-> "ConformanceClasses",
                  ConformsTo |-> <<"http://www.opengis.net/spec/wfs-1/3.0/req/core",
                                   "http://www.opengis.net/spec/wfs-1/3.0/req/geojson">>],
     contentId |-> Fnv64Hex(<<"ConformanceClasses">>)]

\* wfs3.OpenAPI3SchemaEncoded(ct): the encoded document and its fingerprint
OpenAPI3SchemaEncoded(ct) ==
    [content |-> [kind |-> "json", data |-> [kind |-> "OpenAPI3"]],
     contentId |-> Fnv64Hex(<<"OpenAPI3">>)]

\* p.CollectionNames()
CollectionNames(r) ==
    IF r.prov.err
    THEN [names |-> << >>, err |-> [type |-> "error", msg |-> <<"provider error">>]]
    ELSE [names |-> r.prov.names, err |-> NoError]

CollectionsMetaData(r, serveAddress) ==
    LET contentId == Fnv64Hex(serveAddress)
        got == CollectionNames(r)
        cNames == got.names
        call == [op |-> "CollectionNames", failed |-> got.err.type # "none",
                 returned |-> cNames]
        collectionUrl(cn) == URL(serveAddress, <<"collections", cn>>, NoQuery)
        collectionUrlHtml(cn) ==
            URL(serveAddress, <<"collections", cn>>, [k \in {"f"} |-> HTMLContentType])
        linksOf(i) == <<Link("item", collectionUrl(cNames[i]), ""),
                        Link("item", collectionUrlHtml(cNames[i]), HTMLContentType)>>
        allLinks[i \in 0..Len(cNames)] ==
            IF i = 0 THEN << >> ELSE allLinks[i - 1] \o linksOf(i)
    IN  IF got.err.type # "none"
        THEN [content |-> Empty, contentId |-> Empty, err |-> got.err, calls |-> <<call>>]
        ELSE [content |-> [kind |-> "CollectionsInfo",
                           Links |-> allLinks[Len(cNames)],
                           Collections |->
                               [i \in 1..Len(cNames) |->
                                   [Name |-> cNames[i],
                                    Links |-> <<Link("self", collectionUrl(cNames[i]), "")>>]]],
              contentId |-> contentId, err |-> NoError, calls |-> <<call>>]

\* a collection lookup that does not compare the name with the provider's names
CollectionMetaDataUnchecked(r, name, serveAddress) ==
    LET got == CollectionNames(r)
        call == [op |-> "CollectionNames", failed |-> got.err.type # "none",
                 returned |-> got.names]
    IN  IF got.err.type # "none"
        THEN [content |-> Empty, contentId |-> Empty, err |-> got.err, calls |-> <<call>>]
        ELSE [content |-> [kind |-> "CollectionInfo", Name |-> name, Title |-> name,
                           Links |-> <<Link("self", URL(serveAddress, <<"collections", name>>,
                                                        NoQuery), "")>>],
              contentId |-> Fnv64Hex(serveAddress \o name), err |-> NoError,
              calls |-> <<call>>]

CollectionMetaData(r, name, serveAddress) ==
    LET contentId == Fnv64Hex(serveAddress \o name)
        got == CollectionNames(r)
        cNames == got.names
        call == [op |-> "CollectionNames", failed |-> got.err.type # "none",
                 returned |-> cNames]
        validName == \E i \in 1..Len(cNames) : name = cNames[i]
        collectionUrl == URL(serveAddress, <<"collections", name>>, NoQuery)
    IN  IF got.err.type # "none"
        THEN [content |-> Empty, contentId |-> Empty, err |-> got.err, calls |-> <<call>>]
        ELSE IF ~validName
        THEN [content |-> Empty, contentId |-> Empty, calls |-> <<call>>,
              err |-> [type |-> "error", msg |-> <<"Invalid collection name: %v", name>>]]
        ELSE [content |-> [kind |-> "CollectionInfo", Name |-> name, Title |-> name,
                           Links |-> <<Link("self", collectionUrl, "")>>],
              contentId |-> contentId, err |-> NoError, calls |-> <<call>>]

\* a HEAD answered ok whatever ETag the caller supplied
headResponseOk(r, rw, contentId) ==
    WriteHeader(rw, HTTPStatusOk)

\* the answer to a HEAD request once the ETag header is set
headResponse(r, rw, contentId) ==
    IF r.hETag = contentId
    THEN WriteHeader(rw, HTTPStatusNotModified)
    ELSE WriteHeader(rw, HTTPStatusOk)

\* as respondResource, but a caller whose ETag is current gets no body
respondResourceConditional(r, rw0, ct, d, unsupportedCode) ==
    LET encoded == Marshal(r, ct, d)
        rw1 == SetContentType(rw0, ct)
        encodedContent == IF r.override THEN [kind |-> "override"] ELSE encoded
    IN  IF r.hETag = rw0.hdr.ETag
        THEN WriteHeader(rw0, HTTPStatusNotModified)
        ELSE IF ~supportedContentType(ct)
        THEN jsonError(rw0, unsupportedCode, <<"Content-Type: ''%v'' not supported.", ct>>,
                       HTTPStatusServerError)
        ELSE IF encoded = Empty
        THEN jsonError(rw0, "NoApplicableCode", <<"marshal: %v">>, HTTPStatusServerError)
        ELSE IF ct = JSONContentType /\ ~SchemaValid(r, encodedContent)
        THEN jsonError(rw1, "NoApplicableCode", <<"response doesn't match schema">>,
                       HTTPStatusServerError)
        ELSE Write(WriteHeader(rw1, HTTPStatusOk), encodedContent)

\* root, conformance, collectionMetaData, collectionsMetaData: from the
\* marshalling of the content to the end of the handler
respondResource(r, rw0, ct, d, unsupportedCode) ==
    LET encoded == Marshal(r, ct, d)
        rw1 == SetContentType(rw0, ct)
        encodedContent == IF r.override THEN [kind |-> "override"] ELSE encoded
    IN  IF ~supportedContentType(ct)
        THEN jsonError(rw0, unsupportedCode, <<"Content-Type: ''%v'' not supported.", ct>>,
                       HTTPStatusServerError)
        ELSE IF encoded = Empty
        THEN jsonError(rw0, "NoApplicableCode", <<"marshal: %v">>, HTTPStatusServerError)
        ELSE IF ct = JSONContentType /\ ~SchemaValid(r, encodedContent)
        THEN jsonError(rw1, "NoApplicableCode", <<"response doesn't match schema">>,
                       HTTPStatusServerError)
        ELSE Write(WriteHeader(rw1, HTTPStatusOk), encodedContent)

root(cfg, r) ==
    LET ct == contentType(r)
        got == Root
        sshpb == serveSchemeHostPortBase(r)
        apiUrl == URL(sshpb, <<"api">>, NoQuery)
        conformanceUrl == URL(sshpb, <<"conformance">>, NoQuery)
        collectionsUrl == URL(sshpb, <<"collections">>, NoQuery)
        rootUrl == URL(sshpb, << >>, NoQuery)
        alttypes == altContentTypes(ct)
        links == <<Link("self", ctLink(cfg, rootUrl, ct), ct)>>
                 \o [i \in 1..Len(alttypes) |->
                        Link("alternate", ctLink(cfg, rootUrl, alttypes[i]), alttypes[i])]
                 \o <<Link("service", ctLink(cfg, apiUrl, ct), ct),
                      Link("conformance", ctLink(cfg, conformanceUrl, ct), ct),
                      Link("data", ctLink(cfg, collectionsUrl, ct), ct)>>
        rootContent == [got.content EXCEPT !.Links = links]
        rw1 == SetETag(NewWriter, got.contentId)
    IN  [w |-> IF r.method = HTTPMethodHEAD THEN headResponse(r, rw1, got.contentId)
               ELSE respondResource(r, rw1, ct, rootContent, "InvalidParameterValue"),
         calls |-> << >>]

conformance(cfg, r) ==
    LET ct == contentType(r)
        got == Conformance
        rw1 == SetETag(NewWriter, got.contentId)
    IN  [w |-> IF r.method = HTTPMethodHEAD THEN headResponse(r, rw1, got.contentId)
               ELSE respondResource(r, rw1, ct, got.content, "InvalidParameterValue"),
         calls |-> << >>]

openapi(cfg, r) ==
    LET ct == contentType(r)
        got == OpenAPI3SchemaEncoded(ct)
        rw1 == SetETag(NewWriter, got.contentId)
        encodedContent == IF r.override THEN [kind |-> "override"] ELSE got.content
    IN  [w |-> IF ct # JSONContentType
               THEN jsonError(NewWriter, "InvalidParameterValue",
                              <<"Content-Type: ''%v'' not supported.", ct>>,
                              HTTPStatusServerError)
               ELSE IF r.method = HTTPMethodHEAD
               THEN headResponse(r, rw1, got.contentId)
               ELSE Write(WriteHeader(SetContentType(rw1, ct), HTTPStatusOk), encodedContent),
         calls |-> << >>]

\* md.ContentType(ct): every link of the metadata is given the type ct
ContentType(md, ct) ==
    LET typed(links) == [i \in 1..Len(links) |-> [links[i] EXCEPT !.Type = ct]]
    IN  IF "Collections" \in DOMAIN md
        THEN [md EXCEPT !.Links = typed(@),
                        !.Collections =
                            [i \in 1..Len(@) |-> [@[i] EXCEPT !.Links = typed(@)]]]
        ELSE [md EXCEPT !.Links = typed(@)]

collectionMetaData(cfg, r) ==
    LET ct == contentType(r)
        cName == r.name
        sshpb == serveSchemeHostPortBase(r)
        got == CollectionMetaData(r, cName, sshpb)
        collectionMdUrlBase == URL(sshpb, <<"collections", cName>>, NoQuery)
        collectionDataUrlBase == URL(sshpb, <<"collections", cName, "items">>, NoQuery)
        altcts == altContentTypes(ct)
        plinks == <<Link("self", ctLink(cfg, collectionMdUrlBase, ct), ct)>>
                  \o [i \in 1..Len(altcts) |->
                         Link("alternate", ctLink(cfg, collectionMdUrlBase, altcts[i]), altcts[i])]
                  \o <<Link("item", ctLink(cfg, collectionDataUrlBase, ct), ct)>>
                  \o [i \in 1..Len(altcts) |->
                         Link("item", ctLink(cfg, collectionDataUrlBase, altcts[i]), altcts[i])]
        md == [got.content EXCEPT !.Links = plinks \o @]
        rw0 == IF supportedContentType(ct) THEN NewWriter
               ELSE jsonError(NewWriter, "InvalidParamaterValue",
                              <<"Content-Type: ''%v'' not supported.", ct>>,
                              HTTPStatusServerError)
        rw1 == SetETag(rw0, got.contentId)
    IN  IF cName = Empty
        THEN [w |-> jsonError(NewWriter, "MissingParameterValue", <<"No {name} provided">>,
                              HTTPStatusClientError),
              calls |-> << >>]
        ELSE IF got.err.type # "none"
        THEN [w |-> jsonError(NewWriter, "NoApplicableCode", got.err.msg,
                              HTTPStatusServerError),
              calls |-> got.calls]
        ELSE [w |-> IF r.method = HTTPMethodHEAD THEN headResponse(r, rw1, got.contentId)
                    ELSE respondResource(r, rw1, ct,
                                         IF ct = JSONContentType THEN ContentType(md, ct)
                                         ELSE md,
                                         "InvalidParamaterValue"),
              calls |-> got.calls]

\* the supported content types other than ct, in their order
otherContentTypes(ct) == SelectSeq(SupportedContentTypes, LAMBDA sct : sct # ct)

collectionsMetaData(cfg, r) ==
    LET ct == contentType(r)
        sshpb == serveSchemeHostPortBase(r)
        got == CollectionsMetaData(r, sshpb)
        md == ContentType(got.content, ct)
        selfHrefBase == URL(sshpb, <<"collections">>, NoQuery)
        selfLink == Link("self", ctLink(cfg, selfHrefBase, ct), ct)
        others == otherContentTypes(ct)
        altLinks == [i \in 1..Len(others) |->
                        Link("alternate", ctLink(cfg, selfHrefBase, others[i]), others[i])]
        chref(c) == URL(sshpb, <<"collections", c.Name>>, NoQuery)
        ihref(c) == URL(sshpb, <<"collections", c.Name, "items">>, NoQuery)
        cLinks(c) ==
            <<Link("self", ctLink(cfg, chref(c), ct), ct)>>
            \o [i \in 1..Len(others) |->
                   Link("alternate", ctLink(cfg, chref(c), others[i]), others[i])]
            \o [i \in 1..Len(SupportedContentTypes) |->
                   Link("item", ctLink(cfg, ihref(c), SupportedContentTypes[i]),
                        SupportedContentTypes[i])]
        iLinks(c) ==
            <<Link("item", ctLink(cfg, chref(c), ct), ct)>>
            \o [i \in 1..Len(others) |->
                   Link("item", ctLink(cfg, chref(c), others[i]), others[i])]
        ilinks[i \in 0..Len(md.Collections)] ==
            IF i = 0 THEN << >> ELSE ilinks[i - 1] \o iLinks(md.Collections[i])
        full == [md EXCEPT
                    !.Collections = [i \in 1..Len(@) |->
                                        [@[i] EXCEPT !.Links = @ \o cLinks(md.Collections[i])]],
                    !.Links = <<selfLink>> \o altLinks \o @ \o ilinks[Len(md.Collections)]]
        rw1 == SetETag(NewWriter, got.contentId)
    IN  IF got.err.type # "none"
        THEN [w |-> jsonError(NewWriter, "NoApplicableCode", got.err.msg,
                              HTTPStatusServerError),
              calls |-> got.calls]
        ELSE [w |-> IF r.method = HTTPMethodHEAD THEN headResponse(r, rw1, got.contentId)
                    ELSE respondResource(r, rw1, ct, full, "InvalidParameterValue"),
              calls |-> got.calls]

-----------------------------------------------------------------------------
(* The requests served, and what the environment does during each.         *)

MaxTotal == 4

MaxPage == 3

MaxLimitArg == 4

MaxLimitLow == 3

MaxLimitHigh == 12

Str(n) == FormatUint(U64(n))

\* 2^63, 2^64 - 1 and 2^64 in decimal
Pow63 ==
    <<"9", "2", "2", "3", "3", "7", "2", "0", "3", "6",
      "8", "5", "4", "7", "7", "5", "8", "0", "8">>

MaxUint64 ==
    <<"1", "8", "4", "4", "6", "7", "4", "4", "0", "7",
      "3", "7", "0", "9", "5", "5", "1", "6", "1", "5">>

Pow64 ==
    <<"1", "8", "4", "4", "6", "7", "4", "4", "0", "7",
      "3", "7", "0", "9", "5", "5", "1", "6", "1", "6">>

Configs ==
    {[MaxLimit |-> m, DefaultMimeType |-> JSONContentType] : m \in {MaxLimitLow, MaxLimitHigh}}

\* the values a query gives for limit and for page: none, one, several
LimitValues ==
    {<< >>, <<<<"x">>>>, <<MaxUint64>>, <<Str(2), Str(3)>>}
        \cup {<<Str(n)>> : n \in 0..MaxLimitArg}

PageValues ==
    {<< >>, <<<<"x">>>>, <<<<"-", "1">>>>, <<Pow63>>, <<MaxUint64>>, <<Pow64>>, <<Str(1), Str(2)>>}
        \cup {<<Str(n)>> : n \in 0..MaxPage}

BBoxOk == <<"1", ".", "5", ",", "-", "2", ",", "0", "3", ",", "4", ".">>

BBox3 == <<"1", ",", "2", ",", "3">>

BBox5 == <<"1", ",", "2", ",", "3", ",", "4", ",", "5">>

BBoxJoe == <<"1", ",", "J", ",", "3", ",", "4">>

BBoxJoe2 == <<"1", ",", "2", ",", "J", ",", ".">>

BBoxValues ==
    {<< >>, <<BBoxOk>>, <<BBox3>>, <<BBox5>>, <<BBoxJoe>>, <<BBoxJoe2>>, <<Empty>>,
     <<BBoxOk, BBoxOk>>, <<BBox3, BBoxOk>>}

TimeValues ==
    {<< >>, <<<<"2">>>>, <<<<"2", "/", "3">>>>, <<<<"2", "/", "3", "/", "4">>>>,
     <<<<"b">>>>, <<<<"2", "/", "b">>>>, <<Empty>>, <<<<"2">>, <<"3">>>>}

\* queries of property filters: none, one, a repeated key, keys the time filter uses
PropertyQueries ==
    {NoProps,
     [k \in {"a"} |-> <<<<"x">>>>],
     [k \in {"a"} |-> <<<<"x">>, <<"y">>>>],
     [k \in {"timestamp"} |-> <<<<"7">>>>],
     [k \in {"a", "start_time"} |-> IF k = "a" THEN <<<<"x">>>> ELSE <<<<"b">>>>],
     [k \in {"Limit"} |-> <<<<"5">>>>]}

FormatValues ==
    {<< >>, <<JSONContentType>>, <<HTMLContentType>>, <<"text/plain">>, <<"">>,
     <<"text/plain", HTMLContentType>>}

ContentTypeHeaders == {"", JSONContentType, HTMLContentType, "text/plain"}

CollectionName == <<"a">>

\* the address the server is reached at: "http://t"
ServeAddress == <<"h", "t", "t", "p", ":", "/", "/", "t">>

\* the query of a request: the reserved keys that have values, and the others
MkQuery(f, page, limit, bbox, time, props) ==
    LET given == [k \in reservedQParams |->
                    IF k = "f" THEN f ELSE IF k = "page" THEN page
                    ELSE IF k = "limit" THEN limit ELSE IF k = "bbox" THEN bbox ELSE time]
        keys == {k \in reservedQParams : given[k] # << >>}
    IN  [k \in keys \cup DOMAIN props |-> IF k \in keys THEN given[k] ELSE props[k]]

MkRequest(method, hCT, hETag, fid, query, prov, faults) ==
    [handler |-> "collectionData",
     method |-> method, hCT |-> hCT, hETag |-> hETag, host |-> ServeAddress,
     name |-> CollectionName, fid |-> fid, query |-> query, prov |-> prov,
     marshalErr |-> faults[1], override |-> faults[2], schemaOK |-> faults[3]]

NoFault == <<FALSE, FALSE, TRUE>>

Faults ==
    {NoFault, <<TRUE, FALSE, TRUE>>, <<FALSE, TRUE, TRUE>>, <<FALSE, TRUE, FALSE>>,
     <<FALSE, FALSE, FALSE>>, <<TRUE, TRUE, TRUE>>}

Methods == {HTTPMethodGET, HTTPMethodHEAD}

ProviderOk(n) == [err |-> FALSE, n |-> n, names |-> <<CollectionName>>]

ProviderFails == [err |-> TRUE, n |-> 0, names |-> << >>]

\* requests that vary the page window
PagingRequests ==
    {MkRequest(m, "", Empty, Empty, MkQuery(f, page, limit, << >>, << >>, NoProps), prov, NoFault) :
        m \in Methods, f \in {<< >>, <<HTMLContentType>>},
        page \in PageValues, limit \in LimitValues,
        prov \in {ProviderOk(n) : n \in 0..MaxTotal} \cup {ProviderFails}}

\* requests that vary the filters
FilterRequests ==
    {MkRequest(HTTPMethodGET, "", Empty, Empty, MkQuery(<< >>, page, limit, bbox, time, props),
               prov, NoFault) :
        page \in {<< >>, <<Str(1)>>}, limit \in {<< >>, <<Str(2)>>, <<<<"x">>>>},
        bbox \in BBoxValues, time \in TimeValues, props \in PropertyQueries,
        prov \in {ProviderOk(0), ProviderOk(MaxTotal), ProviderFails}}

\* requests that vary the negotiated format, the method, the ETag and the faults
FormatRequests ==
    {MkRequest(m, hCT, hETag, fid, MkQuery(f, << >>, <<Str(2)>>, << >>, << >>, NoProps),
               prov, faults) :
        m \in Methods, hCT \in ContentTypeHeaders, f \in FormatValues,
        hETag \in {Empty, Fnv64Hex(CollectionName), Fnv64Hex(CollectionName \o Str(1))},
        fid \in {Empty, Str(1)},
        prov \in {ProviderOk(1), ProviderOk(MaxTotal)}, faults \in Faults}

\* requests for a single feature
FeatureRequests ==
    {MkRequest(m, "", Empty, fid, MkQuery(f, << >>, limit, bbox, << >>, NoProps), prov, NoFault) :
        m \in Methods, f \in {<< >>, <<HTMLContentType>>},
        fid \in {Str(1), Str(7), <<"x">>, <<"-", "1">>, <<"+", "2">>, Pow63},
        limit \in {<< >>, <<<<"x">>>>}, bbox \in {<< >>, <<BBox3>>},
        prov \in {ProviderOk(0), ProviderOk(1), ProviderOk(2), ProviderFails}}

Requests == PagingRequests \cup FilterRequests \cup FormatRequests \cup FeatureRequests

\* the names a request gives for {name}: none, a collection, no collection
RequestNames == {Empty, CollectionName, <<"b">>}

\* the fingerprints of the resources a handler serves
ResourceETags(handler) ==
    IF handler = "root" THEN {Root.contentId}
    ELSE IF handler = "conformance" THEN {Conformance.contentId}
    ELSE IF handler = "openapi" THEN {OpenAPI3SchemaEncoded(JSONContentType).contentId}
    ELSE IF handler = "collectionsMetaData" THEN {Fnv64Hex(ServeAddress)}
    ELSE {Fnv64Hex(ServeAddress \o n) : n \in RequestNames}

\* the requests for the resources other than features
ResourceRequests(handler) ==
    {[MkRequest(m, hCT, hETag, Empty, MkQuery(f, << >>, << >>, << >>, << >>, NoProps),
                prov, faults)
        EXCEPT !.handler = handler, !.name = name] :
        m \in Methods, hCT \in {"", HTMLContentType},
        f \in {<< >>, <<HTMLContentType>>, <<"text/plain">>},
        hETag \in {Empty} \cup ResourceETags(handler),
        name \in IF handler = "collectionMetaData" THEN RequestNames ELSE {Empty},
        prov \in IF handler \in {"collectionMetaData", "collectionsMetaData"}
                 THEN {ProviderOk(0), ProviderFails} ELSE {ProviderOk(0)},
        faults \in Faults}

NoRequest == [method |-> "none"]

\* no wfs3 function was called in checkOnly mode
NoCheck == [fn |-> "none"]

\* no second request is being served
NoPeer == [req |-> NoRequest, w |-> NewWriter]

-----------------------------------------------------------------------------
(* The server: it serves one request after another.                        *)

Init ==
    /\ config \in Configs
    /\ req = NoRequest
    /\ w = NewWriter
    /\ calls = << >>
    /\ peer = NoPeer
    /\ check = NoCheck
    /\ walk = << >>

\* GET/HEAD /collections/{name}/items and /collections/{name}/items/{feature_id}
ServeCollectionData ==
    /\ req.method = "none"
    /\ \E r \in Requests :
          LET out == collectionData(config, r)
          IN  /\ req' = r
              /\ w' = out.w
              /\ calls' = out.calls
    /\ UNCHANGED <<config, peer, check, walk>>

\* the request r is served with the outcome out of its handler
Respond(r, out) ==
    /\ req' = r
    /\ w' = out.w
    /\ calls' = out.calls

\* GET/HEAD /
ServeRoot ==
    /\ req.method = "none"
    /\ \E r \in ResourceRequests("root") : Respond(r, root(config, r))
    /\ UNCHANGED <<config, peer, check, walk>>

\* GET/HEAD /conformance
ServeConformance ==
    /\ req.method = "none"
    /\ \E r \in ResourceRequests("conformance") : Respond(r, conformance(config, r))
    /\ UNCHANGED <<config, peer, check, walk>>

\* GET/HEAD /api
ServeOpenAPI ==
    /\ req.method = "none"
    /\ \E r \in ResourceRequests("openapi") : Respond(r, openapi(config, r))
    /\ UNCHANGED <<config, peer, check, walk>>

\* GET/HEAD /collections/{name}
ServeCollectionMetaData ==
    /\ req.method = "none"
    /\ \E r \in ResourceRequests("collectionMetaData") : Respond(r, collectionMetaData(config, r))
    /\ UNCHANGED <<config, peer, check, walk>>

\* GET/HEAD /collections
ServeCollectionsMetaData ==
    /\ req.method = "none"
    /\ \E r \in ResourceRequests("collectionsMetaData") : Respond(r, collectionsMetaData(config, r))
    /\ UNCHANGED <<config, peer, check, walk>>

\* the response is complete; the next request gets a new response writer
Finish ==
    /\ req.method # "none"
    /\ req' = NoRequest
    /\ w' = NewWriter
    /\ calls' = << >>
    /\ peer' = NoPeer
    /\ check' = NoCheck
    /\ walk' = << >>
    /\ UNCHANGED config

Next ==
    \/ ServeCollectionData
    \/ ServeRoot
    \/ ServeConformance
    \/ ServeOpenAPI
    \/ ServeCollectionMetaData
    \/ ServeCollectionsMetaData
    \/ Finish

Spec == Init /\ [][Next]_vars

-----------------------------------------------------------------------------
(* Two requests side by side.  The handlers keep no state between          *)
(* requests, so a request answered next to another one gets the response   *)
(* it gets alone; peer holds the second request and its response.          *)

\* the routes of the server: the handler of each path
handle(cfg, r) ==
    IF r.handler = "root" THEN root(cfg, r)
    ELSE IF r.handler = "conformance" THEN conformance(cfg, r)
    ELSE IF r.handler = "openapi" THEN openapi(cfg, r)
    ELSE IF r.handler = "collectionsMetaData" THEN collectionsMetaData(cfg, r)
    ELSE IF r.handler = "collectionMetaData" THEN collectionMetaData(cfg, r)
    ELSE collectionData(cfg, r)

\* a second address the server is reached at: "http://t1"
ServeAddress1 == ServeAddress \o <<"1">>

\* the collections of the provider: "a", "a1" and "1a"
PairNames == <<CollectionName, <<"a", "1">>, <<"1", "a">>>>

PairProvider(n) == [err |-> FALSE, n |-> n, names |-> PairNames]

\* requests for features and pages of the collections "a" and "a1"
PairItemsRequests(methods, formats) ==
    {[MkRequest(m, "", Empty, fid, MkQuery(f, page, <<Str(1)>>, << >>, << >>, NoProps),
                PairProvider(n), NoFault)
        EXCEPT !.name = name] :
        m \in methods, f \in formats,
        name \in {PairNames[1], PairNames[2]},
        fid \in {Empty, Str(1), Str(11), <<"+", "1">>},
        page \in {<< >>, <<Str(1)>>}, n \in 1..2}

\* requests for the other resources, at two addresses, of the collections "a" and "1a"
PairResourceRequests(methods, formats) ==
    {[MkRequest(m, "", Empty, Empty, MkQuery(f, << >>, << >>, << >>, << >>, NoProps),
                PairProvider(1), NoFault)
        EXCEPT !.handler = handler, !.host = host, !.name = name] :
        m \in methods, f \in formats,
        handler \in {"root", "conformance", "openapi", "collectionsMetaData",
                     "collectionMetaData"},
        host \in {ServeAddress, ServeAddress1},
        name \in {PairNames[1], PairNames[3]}}

PairRequests(methods, formats) ==
    PairItemsRequests(methods, formats) \cup PairResourceRequests(methods, formats)

\* two requests are served, each by the handler of its path
ServePair ==
    /\ req.method = "none"
    /\ \E r \in PairRequests(Methods, {<< >>, <<HTMLContentType>>}) :
       \E q \in PairRequests({HTTPMethodGET}, {<< >>}) :
          /\ Respond(r, handle(config, r))
          /\ peer' = [req |-> q, w |-> handle(config, q).w]
    /\ UNCHANGED <<config, check, walk>>

PairNext ==
    \/ ServePair
    \/ Finish

PairSpec == Init /\ [][PairNext]_vars

-----------------------------------------------------------------------------
(* Two requests in flight.  A request is accepted, its handler runs while  *)
(* the other request may be accepted, handled or released, and then it is  *)
(* released; req, w and calls are one connection, peer is the other.  The  *)
(* handlers share the configuration and the provider.                      *)

\* a handler that leaves the type it negotiated as the default type
configAfterNegotiated(cfg, r) == [cfg EXCEPT !.DefaultMimeType = contentType(r)]

\* the configuration after a handler ran: the handlers only read it
configAfter(cfg, r) == cfg

\* requests of the collection "a" at one address, the provider holding one feature
ConcRequests ==
    {r \in PairRequests(Methods, {<< >>, <<HTMLContentType>>}) :
        /\ r.prov.n = 1
        /\ r.host = ServeAddress
        /\ r.name = CollectionName
        /\ "page" \notin DOMAIN r.query}

\* both connections are served from one provider
SameProvider(r, q) ==
    IF r.method = "none" \/ q.method = "none" THEN TRUE ELSE r.prov = q.prov

Accept ==
    /\ req.method = "none"
    /\ \E r \in ConcRequests : SameProvider(r, peer.req) /\ req' = r
    /\ UNCHANGED <<config, w, calls, peer, check, walk>>

Handle ==
    /\ req.method # "none"
    /\ ~w.wroteHeader
    /\ Respond(req, handle(config, req))
    /\ config' = configAfter(config, req)
    /\ UNCHANGED <<peer, check, walk>>

Release ==
    /\ req.method # "none"
    /\ w.wroteHeader
    /\ req' = NoRequest
    /\ w' = NewWriter
    /\ calls' = << >>
    /\ UNCHANGED <<config, peer, check, walk>>

AcceptPeer ==
    /\ peer.req.method = "none"
    /\ \E q \in ConcRequests : SameProvider(q, req) /\ peer' = [peer EXCEPT !.req = q]
    /\ UNCHANGED <<config, req, w, calls, check, walk>>

HandlePeer ==
    /\ peer.req.method # "none"
    /\ ~peer.w.wroteHeader
    /\ peer' = [peer EXCEPT !.w = handle(config, peer.req).w]
    /\ config' = configAfter(config, peer.req)
    /\ UNCHANGED <<req, w, calls, check, walk>>

ReleasePeer ==
    /\ peer.req.method # "none"
    /\ peer.w.wroteHeader
    /\ peer' = NoPeer
    /\ UNCHANGED <<config, req, w, calls, check, walk>>

ConcNext ==
    \/ Accept
    \/ Handle
    \/ Release
    \/ AcceptPeer
    \/ HandlePeer
    \/ ReleasePeer

ConcSpec == Init /\ [][ConcNext]_vars

-----------------------------------------------------------------------------
(* The wfs3 functions with their checkOnly parameter.  The handlers pass   *)
(* false; with true a function returns after it computed the fingerprint.  *)

\* what a wfs3 function returns in checkOnly mode: nil, contentId, nil
FingerprintOnly(contentId) ==
    [content |-> Empty, contentId |-> contentId, err |-> NoError, calls |-> << >>]

\* content, contentId, err of a call, and the provider calls it made
Returned(got) ==
    [content |-> got.content, contentId |-> got.contentId, err |-> got.err,
     calls |-> got.calls]

wfs3CollectionsMetaData(r, serveAddress, checkOnly) ==
    IF checkOnly THEN FingerprintOnly(Fnv64Hex(serveAddress))
    ELSE Returned(CollectionsMetaData(r, serveAddress))

wfs3CollectionMetaData(r, name, serveAddress, checkOnly) ==
    IF checkOnly THEN FingerprintOnly(Fnv64Hex(serveAddress \o name))
    ELSE Returned(CollectionMetaData(r, name, serveAddress))

\* a FeatureData that fetches whatever checkOnly is
wfs3FeatureDataFetching(r, cname, fid, checkOnly) ==
    Returned(FeatureData(r, cname, fid))

wfs3FeatureData(r, cname, fid, checkOnly) ==
    IF checkOnly THEN FingerprintOnly(Fnv64Hex(cname \o FormatUint(fid)))
    ELSE Returned(FeatureData(r, cname, fid))

wfs3FeatureCollectionData(r, cName, bbox, startIdx, stopIdx, properties, checkOnly) ==
    IF checkOnly THEN FingerprintOnly(Fnv64Hex(cName))
    ELSE Returned(FeatureCollectionData(r, cName, bbox, startIdx, stopIdx, properties))

\* the wfs3 functions that take checkOnly
CheckFunctions ==
    {"CollectionsMetaData", "CollectionMetaData", "FeatureData", "FeatureCollectionData"}

\* the call of a wfs3 function with the arguments the handler derives from r
wfs3Call(cfg, r, fn, checkOnly) ==
    LET limit == limitParam(cfg, r).val
        startIdx == MulU(limit, pageParam(r).val)
        stopIdx == AddU(startIdx, limit)
    IN  IF fn = "CollectionsMetaData"
        THEN wfs3CollectionsMetaData(r, serveSchemeHostPortBase(r), checkOnly)
        ELSE IF fn = "CollectionMetaData"
        THEN wfs3CollectionMetaData(r, r.name, serveSchemeHostPortBase(r), checkOnly)
        ELSE IF fn = "FeatureData"
        THEN wfs3FeatureData(r, r.name, Atoi(r.fid).val, checkOnly)
        ELSE wfs3FeatureCollectionData(r, r.name, Empty, startIdx, stopIdx, NoProps, checkOnly)

\* requests without a format, an ETag or a fault
CheckRequests ==
    {r \in PagingRequests \cup FeatureRequests \cup ResourceRequests("collectionMetaData") :
        /\ r.method = HTTPMethodGET
        /\ r.hCT = ""
        /\ r.hETag = Empty
        /\ "f" \notin DOMAIN r.query
        /\ ~r.marshalErr /\ ~r.override /\ r.schemaOK}

\* a wfs3 function is called twice on behalf of r: checkOnly, and not
CheckOnly ==
    /\ req.method = "none"
    /\ \E r \in CheckRequests : \E fn \in CheckFunctions :
          /\ req' = r
          /\ check' = [fn |-> fn,
                       only |-> wfs3Call(config, r, fn, TRUE),
                       full |-> wfs3Call(config, r, fn, FALSE)]
    /\ UNCHANGED <<config, w, calls, peer, walk>>

CheckNext ==
    \/ CheckOnly
    \/ Finish

CheckSpec == Init /\ [][CheckNext]_vars

-----------------------------------------------------------------------------
(* The anchors the HTML template of a feature collection renders from the  *)
(* links of the envelope (package wfs3, tmpl_collection_features).         *)

\* href followed by &f=text/html; of a repeated parameter the first value counts
withHTMLParam(href) ==
    IF "f" \in DOMAIN href.query THEN href
    ELSE [href EXCEPT !.query =
            [k \in DOMAIN href.query \cup {"f"} |->
                IF k = "f" THEN HTMLContentType ELSE href.query[k]]]

\* self and alternate are rendered with their href, prev and next with
\* &f=text/html after their href; other links are not rendered
tmpl_collection_features(links) ==
    LET shown == SelectSeq(links, LAMBDA l : l.Rel \in {"self", "alternate", "prev", "next"})
    IN  [i \in 1..Len(shown) |->
            IF shown[i].Rel \in {"prev", "next"}
            THEN [shown[i] EXCEPT !.Href = withHTMLParam(shown[i].Href)]
            ELSE shown[i]]

-----------------------------------------------------------------------------
(* A client that pages through a collection: it asks for the first page    *)
(* and then follows the next link of each page it gets; walk holds the     *)
(* features of the pages it got, one entry per request.                    *)

\* the longest walk followed: one request more than the largest collection has features
MaxWalk == MaxTotal + 1

\* the features of a response: those of the page, none if it is not a page
FeaturesOf(rw) ==
    IF /\ rw.status = HTTPStatusOk
       /\ Len(rw.body) = 1
       /\ rw.body[1].kind \in {"json", "html"}
       /\ rw.body[1].data.kind = "FeatureCollection"
    THEN rw.body[1].data.Features
    ELSE << >>

\* the next links of a response
NextLinks(rw) ==
    IF FeaturesOf(rw) = << >> /\ rw.status # HTTPStatusOk THEN {}
    ELSE IF Len(rw.body) # 1 \/ rw.body[1].kind \notin {"json", "html"} THEN {}
    ELSE {rw.body[1].data.Links[i].Href :
            i \in {j \in 1..Len(rw.body[1].data.Links) : rw.body[1].data.Links[j].Rel = "next"}}

\* the request for a link of a page: the same collection, the query of the link
FollowLink(r, href) ==
    [r EXCEPT !.query = [k \in DOMAIN href.query |-> <<href.query[k]>>]]

\* the first page of a non-empty collection, with a limit the handler accepts
Start ==
    /\ req.method = "none"
    /\ \E r \in PagingRequests :
          /\ r.method = HTTPMethodGET
          /\ "page" \notin DOMAIN r.query
          /\ limitParam(config, r).ok
          /\ ~r.prov.err
          /\ r.prov.n > 0
          /\ Respond(r, collectionData(config, r))
          /\ walk' = <<FeaturesOf(collectionData(config, r).w)>>
    /\ UNCHANGED <<config, peer, check>>

FollowNext ==
    /\ walk # << >>
    /\ Len(walk) <= MaxWalk
    /\ \E href \in NextLinks(w) :
          LET r == FollowLink(req, href)
          IN  /\ Respond(r, collectionData(config, r))
              /\ walk' = Append(walk, FeaturesOf(collectionData(config, r).w))
    /\ UNCHANGED <<config, peer, check>>

CrawlNext ==
    \/ Start
    \/ FollowNext
    \/ Finish

CrawlSpec == Init /\ [][CrawlNext]_vars

-----------------------------------------------------------------------------
(* What a served request and its response show.                            *)

Served == req.method # "none"

\* a request to /collections/{name}/items, with or without a feature_id
ItemsRequest == Served /\ req.handler = "collectionData"

CollectionRequest == ItemsRequest /\ req.fid = Empty

Faultless == Served /\ ~req.marshalErr /\ ~req.override /\ req.schemaOK

\* the provider was asked for the collection's features and returned them
Fetched ==
    /\ CollectionRequest
    /\ calls # << >>
    /\ calls[1].op = "CollectionFeatures"
    /\ ~calls[1].failed

\* T: how many features match the filters; L, P: the effective limit and page
Total == Len(calls[1].returned)

EffLimit == limitParam(config, req).val

EffPage == pageParam(req).val

Min(a, b) == IF a <= b THEN a ELSE b

\* the natural number l * p is below t (l and t are small, p is any uint64)
ProductBelow(l, p, t) ==
    \/ ToNat(l) = 0 /\ 0 < t
    \/ IsSmall(p) /\ ToNat(l) * ToNat(p) < t

\* the natural number l * (p + 1) is below t
NextProductBelow(l, p, t) ==
    \/ ToNat(l) = 0 /\ 0 < t
    \/ IsSmall(p) /\ ToNat(l) * (ToNat(p) + 1) < t

\* the features at [l * p, min(l * p + l, Len(all))) of all, for natural numbers
Window(all, l, p) ==
    IF ToNat(l) = 0 \/ ~IsSmall(p) THEN << >>
    ELSE SubSeq(all, ToNat(l) * ToNat(p) + 1,
                Min(ToNat(l) * ToNat(p) + ToNat(l), Len(all)))

\* the decimal numeral after and before a decimal numeral (of any size)
DecSucc(ds) ==
    LET nines == {i \in 1..Len(ds) : \A j \in i..Len(ds) : ds[j] = "9"}
        k == Len(ds) - Cardinality(nines)
    IN  IF k = 0 THEN <<"1">> \o [i \in 1..Len(ds) |-> "0"]
        ELSE [i \in 1..Len(ds) |->
                IF i < k THEN ds[i]
                ELSE IF i = k THEN Digits[DigitVal(ds[k]) + 2] ELSE "0"]

DecPred(ds) ==
    LET zeros == {i \in 1..Len(ds) : \A j \in i..Len(ds) : ds[j] = "0"}
        k == Len(ds) - Cardinality(zeros)
        low == [i \in 1..Len(ds) |->
                   IF i < k THEN ds[i]
                   ELSE IF i = k THEN Digits[DigitVal(ds[k])] ELSE "9"]
    IN  IF Len(low) > 1 /\ low[1] = "0" THEN Tail(low) ELSE low

\* the response is a feature collection page with status 200
PageServed ==
    /\ w.status = HTTPStatusOk
    /\ Len(w.body) = 1
    /\ w.body[1].kind \in {"json", "html"}
    /\ w.body[1].data.kind = "FeatureCollection"

PageData == w.body[1].data

\* the response is the out-of-range error, and nothing else
OutOfRange ==
    /\ w.status = HTTPStatusServerError
    /\ w.sent.ETag = Empty
    /\ Len(w.body) = 1
    /\ w.body[1].kind = "error"
    /\ w.body[1].description[1] = "Problem collecting feature data: %v"
    /\ w.body[1].description[2][1]
          = "Invalid start/stop indices [%v, %v] for collection of length %v"

\* the links of the page with a given rel
LinksOf(rel) == {i \in 1..Len(PageData.Links) : PageData.Links[i].Rel = rel}

\* the page number is small, so that no product of the window wraps around
Unwrapped == Served /\ IsSmall(EffPage)

-----------------------------------------------------------------------------
(* Pagination.                                                             *)

\* C1: a feature-collection request with effective limit L, page P and T
\* matching features succeeds with numberReturned = min(L, T - L*P) when
\* L*P < T, and in every other case fails as out-of-range with no features.
C1_PageWindow ==
    (Fetched /\ Faultless) =>
        IF ProductBelow(EffLimit, EffPage, Total)
        THEN IF req.method = HTTPMethodGET
             THEN /\ PageServed
                  /\ PageData.NumberReturned
                        = U64(Len(Window(calls[1].returned, EffLimit, EffPage)))
             ELSE w.status \in {HTTPStatusOk, HTTPStatusNotModified} /\ w.body = << >>
        ELSE OutOfRange

\* C1 holds of the requests whose page number is small
PageWindowUnwrapped == Unwrapped => C1_PageWindow

\* C2: in every successful feature-collection response the features are the
\* slice [L*P, min(L*P+L, T)) of the provider's result in provider order,
\* numberReturned is the number of features in the body and numberMatched is T.
C2_PageSlice ==
    (Fetched /\ req.method = HTTPMethodGET /\ PageServed) =>
        /\ PageData.Features = Window(calls[1].returned, EffLimit, EffPage)
        /\ PageData.NumberReturned = U64(Len(PageData.Features))
        /\ PageData.NumberMatched = U64(Total)

\* C2 holds of the requests whose page number is small
PageSliceUnwrapped == Unwrapped => C2_PageSlice

\* the part of C2 about the two counters holds of every page
PageCounters ==
    (Fetched /\ req.method = HTTPMethodGET /\ PageServed) =>
        /\ PageData.NumberReturned = U64(Len(PageData.Features))
        /\ PageData.NumberMatched = U64(Total)

\* C3: in every successful GET feature-collection response a next link is
\* present iff T > L*(P+1) and a prev link iff P > 0; next targets page P+1
\* and prev page P-1, with the same limit.
C3_PrevNext ==
    (Fetched /\ req.method = HTTPMethodGET /\ PageServed) =>
        /\ (LinksOf("next") # {}) <=> NextProductBelow(EffLimit, EffPage, Total)
        /\ (LinksOf("prev") # {}) <=> (EffPage # U64Zero)
        /\ \A i \in LinksOf("next") :
              /\ PageData.Links[i].Href.query["page"] = DecSucc(FormatUint(EffPage))
              /\ PageData.Links[i].Href.query["limit"] = FormatUint(EffLimit)
        /\ \A i \in LinksOf("prev") :
              /\ PageData.Links[i].Href.query["page"] = DecPred(FormatUint(EffPage))
              /\ PageData.Links[i].Href.query["limit"] = FormatUint(EffLimit)

\* C3 holds of the requests whose page number is small
PrevNextUnwrapped == Unwrapped => C3_PrevNext

-----------------------------------------------------------------------------
(* Links and the empty result.                                             *)

\* the request that follows a link of the page: same collection, the link's query
Follow(href) ==
    [req EXCEPT !.query = [k \in DOMAIN href.query |-> <<href.query[k]>>]]

\* the filters the handler passes to the provider for a request
FiltersOf(r) ==
    [properties |-> propertyFilters(r, timeParam(r).val), bbox |-> bboxParam(r).val]

PagingLinks == LinksOf("self") \cup LinksOf("prev") \cup LinksOf("next")

\* C4: the self, prev and next links of a feature-collection response re-encode
\* page, limit and every active filter (bbox, time, each property filter), so
\* that following one queries the same filtered set as the request.
C4_LinksKeepFilters ==
    (Fetched /\ req.method = HTTPMethodGET /\ PageServed) =>
        \A i \in PagingLinks :
            LET next == Follow(PageData.Links[i].Href)
            IN  /\ timeParam(next).ok /\ bboxParam(next).ok
                /\ FiltersOf(next).properties = calls[1].properties
                /\ FiltersOf(next).bbox = calls[1].bbox

\* C4 as amended: every link of a feature-collection response carries page and
\* limit only, and f on the self and alternate links of a type that is not the
\* default; following one queries the collection with no filter at all.
C4_LinksCarryPaging ==
    (Fetched /\ req.method = HTTPMethodGET /\ PageServed) =>
        \A i \in 1..Len(PageData.Links) :
            LET l == PageData.Links[i]
                q == l.Href.query
            IN  /\ DOMAIN q \ {"f"} = {"page", "limit"}
                /\ q["limit"] = FormatUint(EffLimit)
                /\ l.Rel \in {"self", "alternate"} => q["page"] = FormatUint(EffPage)
                /\ "f" \in DOMAIN q <=>
                      (l.Rel \in {"self", "alternate"} /\ l.Type # config.DefaultMimeType)
                /\ "f" \in DOMAIN q => q["f"] = l.Type
                /\ FiltersOf(Follow(l.Href)) = [properties |-> NoProps, bbox |-> Empty]

\* a filtered page that has a next link
C4_FilteredPageWithNext ==
    /\ Fetched /\ req.method = HTTPMethodGET /\ PageServed
    /\ calls[1].bbox # Empty
    /\ calls[1].properties # NoProps
    /\ LinksOf("next") # {}
    /\ LinksOf("self") # {}

\* C5: a feature-collection request with page 0 whose filters match no feature
\* is not rejected: it succeeds with no features, numberMatched 0 and
\* numberReturned 0.
C5_EmptyResultServed ==
    (Fetched /\ Faultless /\ req.method = HTTPMethodGET
        /\ EffPage = U64Zero /\ Total = 0) =>
        /\ PageServed
        /\ PageData.Features = << >>
        /\ PageData.NumberMatched = U64Zero
        /\ PageData.NumberReturned = U64Zero

-----------------------------------------------------------------------------
(* Content negotiation and the limit.                                      *)

Supported == {JSONContentType, HTMLContentType}

\* the response of a GET that ended with status 200 is sent with this type
SentType == w.sent.ContentType

Sent200 == Served /\ req.method = HTTPMethodGET /\ w.status = HTTPStatusOk

\* C6: the format is the first value of f if that is a supported type, else
\* the Content-Type header of the request if that is a supported type, else
\* JSON; it is always a supported type.
C6_FormatPrecedence ==
    Served =>
        LET f == QueryValues(req, "f")
            expected == IF Len(f) > 0 /\ f[1] \in Supported THEN f[1]
                        ELSE IF req.hCT \in Supported THEN req.hCT
                        ELSE JSONContentType
        IN  /\ contentType(req) = expected
            /\ contentType(req) \in Supported
            /\ Sent200 => SentType = expected

\* C6 as amended: when f is given its first value alone decides (that type if
\* supported, else JSON); only without f is the Content-Type header used, if
\* supported, else JSON; the format is always a supported type.
C6_FormatResolution ==
    Served =>
        LET f == QueryValues(req, "f")
            expected == IF Len(f) > 0
                        THEN IF f[1] \in Supported THEN f[1] ELSE JSONContentType
                        ELSE IF req.hCT \in Supported THEN req.hCT
                        ELSE JSONContentType
        IN  /\ contentType(req) = expected
            /\ contentType(req) \in Supported
            /\ Sent200 => SentType = expected

\* an unsupported f with a supported header, answered in JSON
C6_UnsupportedFormatServed ==
    /\ Sent200
    /\ QueryValues(req, "f") # << >>
    /\ QueryValues(req, "f")[1] \notin Supported
    /\ req.hCT = HTMLContentType
    /\ SentType = JSONContentType

\* C7: the effective limit of every feature-collection request that reaches
\* the provider is at most the configured maximum; an absent limit is 10 and
\* a limit above the maximum is clamped to it without an error.
C7_LimitBounded ==
    Fetched =>
        /\ LeU(EffLimit, U64(config.MaxLimit))
        /\ QueryValues(req, "limit") = << >> =>
              EffLimit = U64(DEFAULT_RESULT_LIMIT)
        /\ (req.method = HTTPMethodGET /\ PageServed) =>
              Len(PageData.Features) <= config.MaxLimit

\* the parts of C7 about the default and the clamp hold wherever the
\* configured maximum is at least the default
LimitBoundedAboveDefault ==
    (config.MaxLimit >= DEFAULT_RESULT_LIMIT) => C7_LimitBounded

-----------------------------------------------------------------------------
(* The filters.                                                            *)

\* limit and page are well-formed, so that the handler gets as far as bbox
PagingParsed == ItemsRequest /\ limitParam(config, req).ok /\ pageParam(req).ok

\* every write to the body is an error object, and no ETag header was sent
OnlyErrors ==
    /\ w.body # << >>
    /\ \A i \in 1..Len(w.body) : w.body[i].kind = "error"
    /\ w.sent.ETag = Empty
    /\ w.hdr.ETag = Empty

LastWrite == w.body[Len(w.body)]

\* the request has one bbox value, and it is not four floats
BadBBox ==
    /\ ItemsRequest
    /\ Len(QueryValues(req, "bbox")) = 1
    /\ \/ Len(Split(req.query["bbox"][1], ",")) # 4
       \/ \E i \in 1..4 : ~ParseFloat(Split(req.query["bbox"][1], ",")[i]).ok

\* C8: a bbox that does not split on commas into 4 components fails with
\* InvalidParameterValue/400 reporting the count; one with 4 components some
\* of which are not floats fails with InvalidParameterValue/400 naming the
\* 1-based position of the first such component and the raw value; the
\* provider is not queried and no ETag or feature data is returned.
C8_BBoxRejected ==
    BadBBox =>
        LET raw == req.query["bbox"][1]
            items == Split(raw, ",")
            first == CHOOSE i \in 1..4 :
                        /\ ~ParseFloat(items[i]).ok
                        /\ \A j \in 1..(i - 1) : ParseFloat(items[j]).ok
        IN  /\ w.status = HTTPStatusClientError
            /\ calls = << >>
            /\ OnlyErrors
            /\ PagingParsed =>
                  /\ LastWrite.code = "InvalidParameterValue"
                  /\ IF Len(items) # 4
                     THEN LastWrite.description
                            = <<"'bbox' parameter has %v items, expecting 4: '%v'",
                                Len(items), raw>>
                     ELSE LastWrite.description
                            = <<"'bbox' parameter has invalid format for item %v/4: '%v' / '%v'",
                                first, items[first], raw>>

\* a bbox of four components whose third and fourth are not floats is rejected
C8_SecondBadItemRejected ==
    /\ BadBBox /\ PagingParsed
    /\ req.query["bbox"][1] = BBoxJoe2
    /\ w.status = HTTPStatusClientError
    /\ LastWrite.description[2] = 3

\* limit, page and bbox are well-formed, so that the handler gets as far as time
FiltersReached == PagingParsed /\ bboxParam(req).ok

\* the non-reserved keys of the query
OwnKeys == DOMAIN req.query \ {"f", "page", "limit", "time", "bbox"}

\* the provider was asked for the collection's features
Asked == CollectionRequest /\ calls # << >> /\ calls[1].op = "CollectionFeatures"

\* C9: time is split on '/': one segment gives a single-instant filter, two
\* segments give a start/end range filter, more than two fail the request
\* with InvalidParameterValue/400 before any provider fetch; an absent time
\* adds no temporal filter.
C9_TimeFilter ==
    (FiltersReached /\ Len(QueryValues(req, "time")) <= 1) =>
        LET qTime == QueryValues(req, "time")
            ts == Split(qTime[1], "/")
        IN  IF qTime = << >>
            THEN CollectionRequest =>
                    /\ Asked
                    /\ DOMAIN calls[1].properties = OwnKeys
            ELSE IF Len(ts) = 1
            THEN CollectionRequest =>
                    /\ Asked
                    /\ DOMAIN calls[1].properties = OwnKeys \cup {"timestamp"}
                    /\ calls[1].properties["timestamp"] = qTime[1]
            ELSE IF Len(ts) = 2
            THEN CollectionRequest =>
                    /\ Asked
                    /\ DOMAIN calls[1].properties = OwnKeys \cup {"start_time", "stop_time"}
                    /\ calls[1].properties["start_time"] \o <<"/">>
                          \o calls[1].properties["stop_time"] = qTime[1]
            ELSE /\ w.status = HTTPStatusClientError
                 /\ calls = << >>
                 /\ OnlyErrors
                 /\ LastWrite.code = "InvalidParameterValue"
                 /\ LastWrite.description
                      = <<"'time' parameter contains more than two time values ('/' separator)">>

\* a time of three segments was rejected, a time of two reached the provider
C9_ThreeSegmentsRejected ==
    /\ FiltersReached
    /\ QueryValues(req, "time") = <<<<"2", "/", "3", "/", "4">>>>
    /\ w.status = HTTPStatusClientError
    /\ calls = << >>

\* C10: every query key outside {f, page, limit, time, bbox} is passed to the
\* provider as a property filter whose value is the key's first value (later
\* values of a repeated key are ignored, without an error); no reserved key
\* is passed as a property filter.
C10_PropertyFilters ==
    (FiltersReached /\ timeParam(req).ok /\ CollectionRequest) =>
        /\ Asked
        /\ \A k \in OwnKeys :
              /\ k \in DOMAIN calls[1].properties
              /\ calls[1].properties[k] = req.query[k][1]
        /\ DOMAIN calls[1].properties \cap {"f", "page", "limit", "time", "bbox"} = {}

\* C10 holds of the requests that give no time
PropertyFiltersWithoutTime ==
    (Served /\ QueryValues(req, "time") = << >>) => C10_PropertyFilters

-----------------------------------------------------------------------------
(* Errors.                                                                 *)

\* the last write to the body is the out-of-range error of the page window
WindowRejected ==
    /\ w.body # << >>
    /\ LastWrite.kind = "error"
    /\ LastWrite.description[1] = "Problem collecting feature data: %v"
    /\ LastWrite.description[2][1]
          = "Invalid start/stop indices [%v, %v] for collection of length %v"

\* the request was rejected for its limit, page, bbox or time, or for a window
\* beyond the features of a collection that has some
ParameterRejected ==
    /\ ItemsRequest
    /\ \/ ~limitParam(config, req).ok
       \/ ~pageParam(req).ok
       \/ ~bboxParam(req).ok
       \/ ~timeParam(req).ok
       \/ CollectionRequest /\ WindowRejected /\ Total > 0

\* C11: every request rejected because of a client-supplied parameter (a
\* malformed limit, page, bbox or time, or an out-of-range page window) is
\* answered with status 400 and error code InvalidParameterValue.
C11_ParameterErrors ==
    ParameterRejected =>
        /\ w.status = HTTPStatusClientError
        /\ LastWrite.kind = "error"
        /\ LastWrite.code = "InvalidParameterValue"

\* C11 holds of the requests rejected for their bbox or time
BBoxTimeErrors ==
    (PagingParsed /\ ~WindowRejected) => C11_ParameterErrors

\* the four error kinds
ErrorKinds ==
    {"MissingParameter", "InvalidParameterValue", "NoApplicableCode", "UnsupportedContentType"}

\* the error objects written to the body
ErrorWrites == {i \in 1..Len(w.body) : w.body[i].kind = "error"}

\* C12: every error response of every handler has a body {code, description}
\* whose code is one of MissingParameter, InvalidParameterValue,
\* NoApplicableCode, UnsupportedContentType.
C12_ErrorKinds ==
    Served =>
        /\ w.status \in {HTTPStatusClientError, HTTPStatusServerError} => ErrorWrites # {}
        /\ \A i \in ErrorWrites :
              /\ DOMAIN w.body[i] = {"kind", "code", "description"}
              /\ w.body[i].code \in ErrorKinds

\* every error response does carry an error object, of some code
ErrorObjects ==
    Served =>
        /\ w.status \in {HTTPStatusClientError, HTTPStatusServerError} => ErrorWrites # {}
        /\ \A i \in ErrorWrites : DOMAIN w.body[i] = {"kind", "code", "description"}

\* a request to /collections/{name}
MetaDataRequest == Served /\ req.handler = "collectionMetaData"

\* the provider gave its collection names, and {name} is one of them
KnownName ==
    /\ calls # << >>
    /\ ~calls[1].failed
    /\ \E i \in 1..Len(calls[1].returned) : calls[1].returned[i] = req.name

\* the response is the metadata of the collection {name}
MetaDataServed ==
    /\ w.status = HTTPStatusOk
    /\ Len(w.body) = 1
    /\ w.body[1].kind \in {"json", "html"}
    /\ w.body[1].data.kind = "CollectionInfo"
    /\ w.body[1].data.Name = req.name

\* C13: a request for /collections/{name} whose name is empty or is not one of
\* the provider's collection names is answered with a 500-class error and no
\* metadata or ETag; a known name is answered with the collection's metadata.
C13_UnknownNameIs500 ==
    MetaDataRequest =>
        IF KnownName
        THEN (req.method = HTTPMethodGET /\ Faultless) => MetaDataServed
        ELSE /\ w.status \in 500..599
             /\ OnlyErrors

\* C13 as amended: an empty name is answered with status 400 (code
\* MissingParameterValue) without asking the provider; a name that is not one
\* of the provider's collection names is answered with status 500; neither
\* response has metadata or an ETag; a known name is answered with the
\* collection's metadata.
C13_CollectionLookup ==
    MetaDataRequest =>
        IF req.name = Empty
        THEN /\ w.status = HTTPStatusClientError
             /\ OnlyErrors
             /\ LastWrite.code = "MissingParameterValue"
             /\ calls = << >>
        ELSE IF ~KnownName
        THEN /\ w.status = HTTPStatusServerError
             /\ OnlyErrors
             /\ LastWrite.code = "NoApplicableCode"
        ELSE /\ w.hdr.ETag # Empty
             /\ (req.method = HTTPMethodGET /\ Faultless) => MetaDataServed

\* an empty name was answered with status 400
C13_EmptyNameRejected ==
    /\ MetaDataRequest
    /\ req.name = Empty
    /\ w.status = HTTPStatusClientError
    /\ w.body # << >>

\* a request to /collections/{name}/items/{feature_id}
FeatureRequest == ItemsRequest /\ req.fid # Empty

\* the provider was asked for the feature
FeatureAsked == FeatureRequest /\ calls # << >> /\ calls[1].op = "GetFeatures"

\* the provider returned exactly one feature
OneFeature == FeatureAsked /\ ~calls[1].failed /\ Len(calls[1].returned) = 1

\* C14: a single-feature request returns a feature (status 200) only when the
\* provider returns exactly one feature for the (collection, id) pair; when the
\* provider returns zero or more than one feature, or an error, the request
\* ends with an error response and neither a feature body nor an ETag.
C14_ExactlyOneFeature ==
    FeatureRequest =>
        /\ w.status = HTTPStatusOk => OneFeature
        /\ (\E i \in 1..Len(w.body) : w.body[i].kind # "error") => OneFeature
        /\ (FeatureAsked /\ ~OneFeature) =>
              /\ w.status \in {HTTPStatusClientError, HTTPStatusServerError}
              /\ OnlyErrors

\* the provider returned two features for the pair, and the request failed
C14_TwoFeaturesRejected ==
    /\ FeatureAsked
    /\ ~calls[1].failed
    /\ Len(calls[1].returned) = 2
    /\ w.status = HTTPStatusServerError
    /\ OnlyErrors

-----------------------------------------------------------------------------
(* Fingerprints.                                                           *)

\* the response is a success: the resource, or the answer to a HEAD
Successful(rw) == rw.status \in {HTTPStatusOk, HTTPStatusNotModified}

\* a second request was served next to req
Paired == Served /\ peer.req.method # "none"

\* the resource a request is for
ResourceKind(r) ==
    IF r.handler # "collectionData" THEN r.handler
    ELSE IF r.fid = Empty THEN "items" ELSE "feature"

\* the inputs that decide the fingerprint of the resource of a request
DecisiveInputs(r) ==
    LET kind == ResourceKind(r)
    IN  [address |-> IF kind \in {"collectionsMetaData", "collectionMetaData"}
                     THEN serveSchemeHostPortBase(r) ELSE Empty,
         name    |-> IF kind \in {"collectionMetaData", "items", "feature"}
                     THEN r.name ELSE Empty,
         id      |-> IF kind = "feature" THEN Atoi(r.fid).val ELSE U64Zero]

SameResource(r, q) ==
    ResourceKind(r) = ResourceKind(q) /\ DecisiveInputs(r) = DecisiveInputs(q)

\* C15: the ETag of a resource is a function of its decisive inputs only (the
\* serve address for the collection list, serve address and name for a
\* collection, collection and id for a feature, the collection name for a page
\* of features): two successful requests with the same decisive inputs carry
\* the same ETag, whatever their method, format, page or the other request.
C15_ETagOfDecisiveInputs ==
    (Paired /\ Successful(w) /\ Successful(peer.w) /\ SameResource(req, peer.req))
        => /\ w.sent.ETag # Empty
           /\ w.sent.ETag = peer.w.sent.ETag

\* a HEAD for the second page as HTML and a GET for the first page as JSON, of
\* one collection, both successful
C15_PagesShareETag ==
    /\ Paired
    /\ ResourceKind(req) = "items" /\ ResourceKind(peer.req) = "items"
    /\ req.name = peer.req.name
    /\ req.method = HTTPMethodHEAD
    /\ "f" \in DOMAIN req.query
    /\ "page" \in DOMAIN req.query /\ "page" \notin DOMAIN peer.req.query
    /\ Successful(w) /\ Successful(peer.w)
    /\ w.sent.ETag = peer.w.sent.ETag

\* two successful requests for resources of one kind, a feature or a collection
KeyedPair ==
    /\ Paired
    /\ Successful(w) /\ Successful(peer.w)
    /\ ResourceKind(req) = ResourceKind(peer.req)
    /\ ResourceKind(req) \in {"feature", "collectionMetaData"}

\* the byte string the fingerprint of a feature or of a collection is the hash of
FingerprintString(r) ==
    IF ResourceKind(r) = "feature" THEN r.name \o FormatUint(Atoi(r.fid).val)
    ELSE serveSchemeHostPortBase(r) \o r.name

\* C16: distinct (collection name, feature id) pairs and distinct (serve
\* address, collection name) pairs never share an ETag, the hash being
\* collision-free on distinct byte strings.
C16_DistinctPairsDistinctETags ==
    (KeyedPair /\ DecisiveInputs(req) # DecisiveInputs(peer.req))
        => w.sent.ETag # peer.w.sent.ETag

\* resources whose fingerprint strings differ do not share an ETag
DistinctStringsDistinctETags ==
    (KeyedPair /\ FingerprintString(req) # FingerprintString(peer.req))
        => w.sent.ETag # peer.w.sent.ETag

-----------------------------------------------------------------------------
(* Conditional responses.                                                  *)

\* the current fingerprint of the resource a request is for
Fingerprint(r) ==
    LET kind == ResourceKind(r)
    IN  IF kind = "root" THEN Root.contentId
        ELSE IF kind = "conformance" THEN Conformance.contentId
        ELSE IF kind = "openapi" THEN OpenAPI3SchemaEncoded(JSONContentType).contentId
        ELSE IF kind = "collectionsMetaData" THEN Fnv64Hex(serveSchemeHostPortBase(r))
        ELSE IF kind = "items" THEN Fnv64Hex(r.name)
        ELSE Fnv64Hex(FingerprintString(r))

HeadRequest == Served /\ req.method = HTTPMethodHEAD

\* a HEAD request that passed parameter parsing and fetch: no error was written
HeadPassed == HeadRequest /\ w.status \notin {HTTPStatusClientError, HTTPStatusServerError}

\* C17: a HEAD request that passes parameter parsing and fetch, in every handler,
\* gets the current fingerprint as its ETag header, and is answered "not
\* modified" if and only if the ETag the caller supplied equals that
\* fingerprint, otherwise "ok".
C17_HeadConditional ==
    HeadPassed =>
        /\ w.sent.ETag = Fingerprint(req)
        /\ w.status = (IF req.hETag = Fingerprint(req)
                       THEN HTTPStatusNotModified ELSE HTTPStatusOk)

\* a HEAD for a collection's metadata with the current ETag is answered "not modified"
C17_HeadNotModified ==
    /\ HeadPassed
    /\ req.handler = "collectionMetaData"
    /\ req.hETag = Fingerprint(req)
    /\ w.status = HTTPStatusNotModified
    /\ w.sent.ETag = req.hETag

GetRequest == Served /\ req.method = HTTPMethodGET

\* the request with the other answer to "is the supplied ETag the current one"
OtherETag(r) ==
    [r EXCEPT !.hETag = IF r.hETag = Fingerprint(r) THEN Empty ELSE Fingerprint(r)]

\* C18: a GET is never short-circuited on the ETag: in every handler its status
\* and body are the same whether or not the caller supplied the current
\* fingerprint as ETag, and a successful GET has status 200, the full body and
\* the ETag header.
C18_GetIgnoresETag ==
    GetRequest =>
        LET other == handle(config, OtherETag(req)).w
        IN  /\ other.status = w.status
            /\ other.body = w.body
            /\ w.status \notin {HTTPStatusClientError, HTTPStatusServerError}
                  => /\ w.status = HTTPStatusOk
                     /\ Len(w.body) = 1
                     /\ w.body[1].kind # "error"
                     /\ w.sent.ETag = Fingerprint(req)

\* a GET for the conformance classes with the current ETag gets them in full
C18_GetWithCurrentETag ==
    /\ GetRequest
    /\ req.handler = "conformance"
    /\ req.hETag = Fingerprint(req)
    /\ w.status = HTTPStatusOk
    /\ Len(w.body) = 1
    /\ w.body[1].kind # "error"

\* C19: a HEAD request never returns a body: on every path of every handler
\* (ok, not modified, every error path) no body bytes are written.
C19_HeadNoBody == HeadRequest => w.body = << >>

\* the ok and not-modified answers to a HEAD have no body
HeadPassedNoBody == HeadPassed => w.body = << >>

-----------------------------------------------------------------------------
(* Status codes.                                                           *)

\* C20: every response of the handlers has status 200, 400 or 500; a HEAD
\* request whose supplied ETag matches the fingerprint is answered with 200,
\* not with 304.
C20_ThreeStatusCodes ==
    Served => w.status \in {HTTPStatusOk, HTTPStatusClientError, HTTPStatusServerError}

\* C20: every response has status 200, 304, 400 or 500, and 304 is the answer
\* to exactly the HEAD requests that pass parsing and fetch and supply the
\* current fingerprint as ETag; it carries that ETag and no body.
C20_FourStatusCodes ==
    Served =>
        /\ w.status \in {HTTPStatusOk, HTTPStatusNotModified,
                         HTTPStatusClientError, HTTPStatusServerError}
        /\ w.status = HTTPStatusNotModified
              <=> (HeadRequest /\ req.hETag = Fingerprint(req) /\ w.body = << >>)
        /\ w.status = HTTPStatusNotModified => w.sent.ETag = req.hETag

\* a HEAD for the root resource with the current ETag is answered 304
C20_HeadMatchIs304 ==
    /\ HeadRequest
    /\ req.handler = "root"
    /\ req.hETag = Fingerprint(req)
    /\ w.status = HTTPStatusNotModified

-----------------------------------------------------------------------------
(* Schema validation.                                                      *)

\* the error object written when the bytes to send do not match the schema
SchemaError == ErrorBody("NoApplicableCode", <<"response doesn't match schema">>)

\* the validator rejected the bytes of this response
ValidationFailed == Served /\ \E i \in 1..Len(w.body) : w.body[i] = SchemaError

\* what the claim says of a GET response and the validator
ValidatedResponse ==
    /\ ValidationFailed => (w.status = HTTPStatusServerError /\ w.body = <<SchemaError>>)
    /\ (w.status = HTTPStatusOk /\ contentType(req) = JSONContentType)
          => \A i \in 1..Len(w.body) : SchemaValid(req, w.body[i])
    /\ (contentType(req) = JSONContentType /\ ~req.schemaOK)
          => \A i \in 1..Len(w.body) : w.body[i].kind = "error"
    /\ contentType(req) = HTMLContentType
          => handle(config, [req EXCEPT !.schemaOK = ~@]).w = w

\* C21: for a GET in JSON, when the bytes about to be sent fail schema
\* validation none of them are written: the response is status 500 with code
\* NoApplicableCode and the fixed description; status 200 and the body are
\* written only after those bytes were validated; for HTML the validator is
\* never invoked.
C21_SchemaFailure == GetRequest => ValidatedResponse

\* the same, for the requests whose envelope is marshalled without an error, to
\* the handlers that validate (openapi has no schema to validate against)
SchemaFailureAfterMarshal ==
    (GetRequest /\ ~req.marshalErr /\ req.handler # "openapi") => ValidatedResponse

-----------------------------------------------------------------------------
(* Failing closed.                                                         *)

\* a parameter of the request does not parse
ParseFailed ==
    \/ /\ ItemsRequest
       /\ \/ req.fid # Empty /\ ~Atoi(req.fid).ok
          \/ ~limitParam(config, req).ok
          \/ ~pageParam(req).ok
          \/ ~bboxParam(req).ok
          \/ ~timeParam(req).ok
    \/ MetaDataRequest /\ req.name = Empty

\* one error object, nothing written after it, and no provider call after a
\* parameter error
ClosedOnError ==
    /\ ErrorWrites # {} => (Len(w.body) = 1 /\ w.hdr = w.sent)
    /\ ParseFailed => (calls = << >> /\ ErrorWrites # {})

\* C22: transitions fail closed in every handler: the first error found while
\* parsing parameters (an unparsable feature_id included) or fetching ends the
\* request; after an error response the provider is not queried and no further
\* status, header or body bytes are written.
C22_FailClosed == Served => ClosedOnError

\* the same, but for an unparsable feature_id and a marshalling failure
FailClosedOtherwise ==
    (Served /\ ~req.marshalErr /\ (req.fid = Empty \/ Atoi(req.fid).ok)) => ClosedOnError

-----------------------------------------------------------------------------
(* Links of the envelopes.                                                 *)

\* a GET was answered with the envelope of its resource
EnvelopeServed ==
    /\ GetRequest
    /\ req.handler # "openapi"
    /\ w.status = HTTPStatusOk
    /\ Len(w.body) = 1
    /\ w.body[1].kind \in {"json", "html"}

Envelope == w.body[1].data

HasSelf(links) == \E i \in 1..Len(links) : links[i].Rel = "self"

\* C23: every envelope serialized in a successful GET response, of the root,
\* the conformance classes, the collection list, a collection, a feature or a
\* feature collection, has at least one link with rel self.
C23_SelfLinkEverywhere ==
    EnvelopeServed => ("Links" \in DOMAIN Envelope /\ HasSelf(Envelope.Links))

\* C23: the envelopes of the root, the collection list (and each collection in
\* it), a collection, a feature and a feature collection have at least one link
\* with rel self; the conformance classes have no links at all.
C23_SelfLinkButConformance ==
    EnvelopeServed =>
        IF req.handler = "conformance"
        THEN "Links" \notin DOMAIN Envelope
        ELSE /\ HasSelf(Envelope.Links)
             /\ "Collections" \in DOMAIN Envelope
                   => \A i \in 1..Len(Envelope.Collections) :
                         HasSelf(Envelope.Collections[i].Links)

\* the conformance classes are served: a list of classes, no links
C23_ConformanceServed ==
    /\ EnvelopeServed
    /\ req.handler = "conformance"
    /\ Envelope.kind = "ConformanceClasses"
    /\ Len(Envelope.ConformsTo) > 0

\* an envelope with links was served
LinkedEnvelope == EnvelopeServed /\ req.handler # "conformance"

\* self (of the negotiated type ct) first, then one alternate for each other
\* supported type, then links that are not alternates
SelfFirst(links, ct) ==
    LET others == otherContentTypes(ct)
        k == Len(others)
    IN  /\ Len(links) > k
        /\ links[1].Rel = "self"
        /\ links[1].Type = ct
        /\ \A i \in 1..k : links[1 + i].Rel = "alternate" /\ links[1 + i].Type = others[i]
        /\ \A i \in (k + 2)..Len(links) : links[i].Rel # "alternate"

\* C24: in the links of every envelope, for every resource kind and both
\* negotiated formats, the self link (typed with the negotiated format) comes
\* first, followed by one alternate link for each other supported format,
\* followed by the item/collection/prev/next/service links.
C24_SelfFirst == LinkedEnvelope => SelfFirst(Envelope.Links, contentType(req))

\* the same, but for a single feature served as HTML and for the metadata of a
\* collection served as JSON, whose links md.ContentType retypes
SelfFirstElsewhere ==
    (/\ LinkedEnvelope
     /\ ~(FeatureRequest /\ contentType(req) = HTMLContentType)
     /\ ~(MetaDataRequest /\ contentType(req) = JSONContentType))
        => SelfFirst(Envelope.Links, contentType(req))

-----------------------------------------------------------------------------
(* Concurrency.                                                            *)

\* the handler of this connection has answered
Answered == Served /\ w.wroteHeader

PeerAnswered == peer.req.method # "none" /\ peer.w.wroteHeader

ConfigOnlyRead == [][config' = config]_vars

-----------------------------------------------------------------------------
(* The page window in machine integers.                                    *)

\* C26: for every page and limit the interpreter accepts, the window starts at
\* the mathematical product limit*page and stops at min(start + limit,
\* totalMatched): a request whose true limit*page is >= totalMatched gets the
\* out-of-range error, never features or a next link.
C26_NoWrapAround ==
    (Fetched /\ Faultless) =>
        /\ ~ProductBelow(EffLimit, EffPage, Total) => OutOfRange
        /\ PageServed =>
              /\ PageData.Features = Window(calls[1].returned, EffLimit, EffPage)
              /\ LinksOf("next") # {} => NextProductBelow(EffLimit, EffPage, Total)

\* the same for the page numbers whose products stay below 2^64
NoWrapAroundUnwrapped ==
    (Fetched /\ Faultless /\ Unwrapped) =>
        /\ ~ProductBelow(EffLimit, EffPage, Total) => OutOfRange
        /\ PageServed =>
              /\ PageData.Features = Window(calls[1].returned, EffLimit, EffPage)
              /\ LinksOf("next") # {} => NextProductBelow(EffLimit, EffPage, Total)

-----------------------------------------------------------------------------
(* checkOnly.                                                              *)

Checked == check.fn # "none"

\* C27: in checkOnly mode CollectionsMetaData, CollectionMetaData, FeatureData
\* and FeatureCollectionData return only the fingerprint: the provider is not
\* called, the content and the error are nil; and the fingerprint is the one
\* the same call returns with checkOnly = false whenever that call succeeds.
C27_CheckOnly ==
    Checked =>
        /\ check.only.calls = << >>
        /\ check.only.content = Empty
        /\ check.only.err = NoError
        /\ check.only.contentId # Empty
        /\ check.full.err = NoError => check.only.contentId = check.full.contentId

\* FeatureData found its feature, and in checkOnly mode gave the same fingerprint
C27_SameFingerprint ==
    /\ Checked
    /\ check.fn = "FeatureData"
    /\ check.full.err = NoError
    /\ check.full.calls # << >>
    /\ check.full.content # Empty
    /\ check.only.contentId = check.full.contentId

-----------------------------------------------------------------------------
(* Paging through a collection.                                            *)

Crawling == walk # << >>

\* the features of the pages got so far, in the order they came
RECURSIVE Flat(_)
Flat(pages) == IF pages = << >> THEN << >> ELSE Flat(SubSeq(pages, 1, Len(pages) - 1)) \o pages[Len(pages)]

\* no followed request failed, the features got so far are the first features
\* of the collection in provider order, a page without a next link ends the
\* collection, and no more requests were made than the collection has features
Covering ==
    /\ PageServed
    /\ Flat(walk) = SubSeq(calls[1].returned, 1, Len(Flat(walk)))
    /\ LinksOf("next") = {} => Flat(walk) = calls[1].returned
    /\ Len(walk) <= Total

CrawlCoversPositiveLimit == (Crawling /\ EffLimit # U64Zero) => Covering

-----------------------------------------------------------------------------
(* Links and their declared types.                                         *)

\* requesting the href of the link negotiates to the type the link declares
Consistent(link) ==
    IF link.Type = config.DefaultMimeType
    THEN "f" \notin DOMAIN link.Href.query
    ELSE "f" \in DOMAIN link.Href.query /\ link.Href.query["f"] = link.Type

PagingRels == {"prev", "next"}

\* C29: every link of a served feature or feature collection envelope, in
\* either negotiated format, is consistent with its declared type: a link of
\* a type other than the default has f=<Type> in its href, a link of the
\* default type has no f in its href.
C29_LinksConsistent ==
    (EnvelopeServed /\ req.handler = "collectionData") =>
        \A i \in 1..Len(Envelope.Links) : Consistent(Envelope.Links[i])

\* the same for every link but prev and next
LinksConsistentButPaging ==
    (EnvelopeServed /\ req.handler = "collectionData") =>
        \A i \in 1..Len(Envelope.Links) :
            Envelope.Links[i].Rel \notin PagingRels => Consistent(Envelope.Links[i])

\* the links of a page as a client of the negotiated format gets them: the
\* links of the envelope in JSON, the anchors of the template in HTML
Emitted ==
    IF w.body[1].kind = "html" THEN tmpl_collection_features(PageData.Links) ELSE PageData.Links

\* the anchors the HTML template renders for prev and next do carry f=text/html
AnchorsConsistent ==
    (GetRequest /\ PageServed) => \A i \in 1..Len(Emitted) : Consistent(Emitted[i])

-----------------------------------------------------------------------------
(* HEAD on features and feature collections.                               *)

HeadItems == HeadRequest /\ req.handler = "collectionData"

\* what the handler does with the same request sent as a GET
AsGet == handle(config, [req EXCEPT !.method = HTTPMethodGET])

\* the parameters parsed and the provider was asked and gave what was asked
\* for: exactly one feature, or features of which the page window can be cut
FetchSucceeded ==
    /\ ~ParseFailed
    /\ calls # << >>
    /\ \A i \in 1..Len(calls) : ~calls[i].failed
    /\ FeatureRequest => OneFeature
    /\ (CollectionRequest /\ Unwrapped) => ProductBelow(EffLimit, EffPage, Total)

\* C30: a HEAD request for a feature or a feature collection is answered ok
\* or not-modified, with an ETag, only if its parameters parse and the provider
\* fetch succeeds, the lookup of the single feature and the check of the page
\* window included; otherwise it is answered with the error status the same
\* request gets as a GET, and without an ETag header.
C30_HeadFetches ==
    HeadItems =>
        IF w.status \in {HTTPStatusOk, HTTPStatusNotModified}
        THEN /\ w.sent.ETag # Empty
             /\ FetchSucceeded
        ELSE /\ w.status = AsGet.w.status
             /\ w.status \in {HTTPStatusClientError, HTTPStatusServerError}
             /\ w.sent.ETag = Empty

\* a HEAD request for a page beyond the collection: the provider is asked, the
\* window check fails, and the answer is the error of the GET, without ETag
C30_HeadOutOfRange ==
    /\ HeadItems
    /\ Fetched
    /\ Unwrapped
    /\ ~ProductBelow(EffLimit, EffPage, Total)
    /\ w.status = HTTPStatusServerError
    /\ w.sent.ETag = Empty

====
